---- MODULE Spec2Model ----
(***************************************************************************)
(* Verification model of the parallel URL-candidate validation engine of   *)
(* src/scrape_api.py: the HTTP session with its retry policy                *)
(* (make_session), the image fetcher (validate_image, validate_single_url), *)
(* the engine (validate_urls_parallel) and the brand handlers around it.    *)
(*                                                                          *)
(* Twelve specifications share the variables:                                  *)
(*   Spec        - one call of validate_urls_parallel: the fetches complete *)
(*                 in any order, then the list is sorted, deduplicated and  *)
(*                 capped;                                                  *)
(*   FairSpec    - the engine with the fairness of the worker threads and   *)
(*                 of the calling thread, each fetch timing out or          *)
(*                 returning an image;                                      *)
(*   FetchSpec   - one call of validate_single_url / validate_image through *)
(*                 a session built by make_session, request by request;     *)
(*   PoolSpec    - the worker pool of validate_urls_parallel;               *)
(*   ReplaySpec  - scrape_replay, with its own validator and pipeline;      *)
(*   LevisSpec   - scrape_levis of scrapers/scrape_levis.py, the probes of  *)
(*                 find_working_combo one by one;                           *)
(*   LevisScrapeSpec - scrape_levis given what find_working_combo returned; *)
(*   HandlerSpec - the responses of scrape_boss, scrape_maje, scrape_mango  *)
(*                 and scrape_coach;                                        *)
(*   BossSpec    - scrape_boss together with its call of the engine;        *)
(*   CoachSpec   - scrape_coach of scrapers/scrape_coach.py with its checks; *)
(*   MoratoSpec  - get_all_images_parallel of scrapers/antony_morato.py;    *)
(*   FalkeSpec   - scrape of scrapers/falke.py from the gallery on.         *)
(***************************************************************************)
EXTENDS Integers, Sequences, FiniteSets, TLC

VARIABLES
    pc,                 \* engine: "idle", "fetching", "done", "raised"
    url_metadata_list,  \* engine: the candidate list, records [url, metadata]
    max_images,         \* engine: the cap passed by the caller
    min_bytes,          \* engine: the size threshold passed by the caller
    futures,            \* engine: one record per submitted fetch
    results,            \* engine: the valid result tuples, as appended / sorted
    arrival,            \* engine: candidate tags in the order results were appended
    images,             \* engine: the returned list
    f_pc,               \* fetch: "idle", "sending", "returned"
    f_fn,               \* fetch: which function runs
    f_min_bytes,        \* fetch: its min_bytes argument
    f_total,            \* fetch: Retry.total still left
    f_requests,         \* fetch: HTTP requests sent so far for this candidate
    f_outcome,          \* fetch: what s.get produced (response or exception)
    f_result,           \* fetch: what the function returned (or that it raised)
    p_pc,               \* pool: "idle", "running", "done"
    p_n,                \* pool: number of fetches submitted to the executor
    p_started,          \* pool: number of fetches a worker thread has taken up
    p_done,             \* pool: the fetches that have finished
    l_pc,               \* levis: "idle", "probing", "returned"
    l_futures,          \* levis: per combination "queued", "running", "valid", "invalid"
    l_result,           \* levis: what find_working_combo returned
    l_sku_code,         \* levis: the sku code of the request
    l_max_images,       \* levis: the max_images of the request
    l_valid_images,     \* levis: valid_images of scrape_levis before its sort
    l_response,         \* levis: what scrape_levis returned
    h_pc,               \* handler: "idle", "responded"
    h_handler,          \* handler: which endpoint assembles the response
    h_sku,              \* handler: the sku of the request
    h_max_images,       \* handler: the max_images of the request
    h_input,            \* handler: the validated images the response is built from
    h_response          \* handler: the response returned to the client

engine_vars == <<pc, url_metadata_list, max_images, min_bytes, futures, results, arrival, images>>
fetch_vars == <<f_pc, f_fn, f_min_bytes, f_total, f_requests, f_outcome, f_result>>
pool_vars == <<p_pc, p_n, p_started, p_done>>
levis_vars == <<l_pc, l_futures, l_result, l_sku_code, l_max_images, l_valid_images, l_response>>
handler_vars == <<h_pc, h_handler, h_sku, h_max_images, h_input, h_response>>
other_than_engine == <<fetch_vars, pool_vars, levis_vars, handler_vars>>
other_than_fetch == <<engine_vars, pool_vars, levis_vars, handler_vars>>
other_than_pool == <<engine_vars, fetch_vars, levis_vars, handler_vars>>
other_than_levis == <<engine_vars, fetch_vars, pool_vars, handler_vars>>
other_than_handler == <<engine_vars, fetch_vars, pool_vars, levis_vars>>
vars == <<pc, url_metadata_list, max_images, min_bytes, futures, results, arrival, images,
          f_pc, f_fn, f_min_bytes, f_total, f_requests, f_outcome, f_result,
          p_pc, p_n, p_started, p_done,
          l_pc, l_futures, l_result, l_sku_code, l_max_images, l_valid_images, l_response,
          h_pc, h_handler, h_sku, h_max_images, h_input, h_response>>

(***************************************************************************)
(* Bounds of the model.                                                     *)
(***************************************************************************)
\* longest candidate list explored
MaxCands == 3
\* largest max_images explored (the smallest is -1)
MaxCap == 2

(***************************************************************************)
(* Program constants.                                                       *)
(***************************************************************************)
MIN_BYTES == 8000
\* Retry(total=3, ...)
RETRY_TOTAL == 3
\* the secondary size threshold of the acceptance rule
FALLBACK_BYTES == 20000
\* url_order.get(x[0], 999)
MISSING_ORDER == 999
\* status_forcelist=(429, 500, 502, 503, 504)
STATUS_FORCELIST == {429, 500, 502, 503, 504}
\* the min_bytes values the handlers pass to the engine
HandlerMinBytes == {MIN_BYTES, 4000, 12000, 15000, 20000}

\* None; also the empty string where only its truth value is read
None == <<>>

(***************************************************************************)
(* Strings are sequences of characters, so that lower() and "in" are        *)
(* computed.                                                                *)
(***************************************************************************)
IMAGE == <<"i", "m", "a", "g", "e">>
CT_IMAGE_JPEG == <<"i", "m", "a", "g", "e", "/", "j", "p", "e", "g">>
CT_IMAGE_UPPER == <<"I", "m", "a", "g", "e", "/", "P", "N", "G">>
CT_TEXT_HTML == <<"t", "e", "x", "t", "/", "h", "t", "m", "l">>
CT_OCTET == <<"b", "i", "n", "a", "r", "y", "/", "o", "c", "t", "e", "t">>

LowerChar(c) ==
    CASE c = "I" -> "i"
      [] c = "M" -> "m"
      [] c = "A" -> "a"
      [] c = "G" -> "g"
      [] c = "E" -> "e"
      [] c = "P" -> "p"
      [] c = "N" -> "n"
      [] OTHER -> c

\* str.lower()
Lower(s) == [i \in DOMAIN s |-> LowerChar(s[i])]

\* sub in s
Contains(s, sub) ==
    \E k \in 0..(Len(s) - Len(sub)) :
        \A i \in 1..Len(sub) : s[k + i] = sub[i]

(***************************************************************************)
(* HTTP values.  A body is a byte string: an identity and a length.  A      *)
(* response carries a status, its headers (a function of the header names   *)
(* the server sent) and the body.  s.get either returns a response or       *)
(* raises.                                                                  *)
(***************************************************************************)
Body(id, n) == [id |-> id, len |-> n]
NoHeaders == [n \in {} |-> <<>>]
ContentTypeHeader(v) == [n \in {"Content-Type"} |-> v]
Response(status, headers, body) == [status_code |-> status, headers |-> headers, content |-> body]
GotResponse(r) == [kind |-> "response", resp |-> r]
GotException == [kind |-> "exception"]

\* len(r.content)
BodyLen(content) == content.len

\* truth value of a bytes object: non-empty
Truthy(content) == BodyLen(content) # 0

\* headers.get(name, default)
HeadersGet(headers, name, default) == IF name \in DOMAIN headers THEN headers[name] ELSE default

\* hashlib.sha1(content).hexdigest(): equal digests exactly for equal bytes
sha1_hash(content) == <<"sha1", content.id, content.len>>

\* what a function call produced: a returned value, or an exception that left it
Returned(v) == [raised |-> FALSE, value |-> v]
Raised == [raised |-> TRUE, value |-> None]

ResultTuple(url, is_valid, content, hash, metadata) ==
    [url |-> url, is_valid |-> is_valid, content |-> content, hash |-> hash, metadata |-> metadata]

\* the except clause of validate_single_url left out
validate_single_url_no_except(args, got) ==
    LET url == args[1]
        metadata == args[2]
        mb == args[4]
    IN  IF got.kind = "exception"
        THEN Raised
        ELSE LET r == got.resp IN
             IF r.status_code = 200 /\ Truthy(r.content) /\ BodyLen(r.content) > mb
                /\ (Contains(Lower(HeadersGet(r.headers, "Content-Type", <<>>)), IMAGE)
                    \/ BodyLen(r.content) > FALLBACK_BYTES)
             THEN Returned(ResultTuple(url, TRUE, r.content, sha1_hash(r.content), metadata))
             ELSE Returned(ResultTuple(url, FALSE, None, None, metadata))

\* the header compared without lower()
validate_single_url_no_lower(args, got) ==
    LET url == args[1]
        metadata == args[2]
        mb == args[4]
    IN  IF got.kind = "exception"
        THEN Returned(ResultTuple(url, FALSE, None, None, metadata))
        ELSE LET r == got.resp IN
             IF r.status_code = 200 /\ Truthy(r.content) /\ BodyLen(r.content) > mb
                /\ (Contains(HeadersGet(r.headers, "Content-Type", <<>>), IMAGE)
                    \/ BodyLen(r.content) > FALLBACK_BYTES)
             THEN Returned(ResultTuple(url, TRUE, r.content, sha1_hash(r.content), metadata))
             ELSE Returned(ResultTuple(url, FALSE, None, None, metadata))

\* the size threshold compared with >= for >
validate_single_url_at_least(args, got) ==
    LET url == args[1]
        metadata == args[2]
        mb == args[4]
    IN  IF got.kind = "exception"
        THEN Returned(ResultTuple(url, FALSE, None, None, metadata))
        ELSE LET r == got.resp IN
             IF r.status_code = 200 /\ Truthy(r.content) /\ BodyLen(r.content) >= mb
                /\ (Contains(Lower(HeadersGet(r.headers, "Content-Type", <<>>)), IMAGE)
                    \/ BodyLen(r.content) > FALLBACK_BYTES)
             THEN Returned(ResultTuple(url, TRUE, r.content, sha1_hash(r.content), metadata))
             ELSE Returned(ResultTuple(url, FALSE, None, None, metadata))

\* validate_single_url(args), given what s.get(url, timeout=TIMEOUT) produced
validate_single_url(args, got) ==
    LET url == args[1]
        metadata == args[2]
        mb == args[4]
    IN  IF got.kind = "exception"
        THEN Returned(ResultTuple(url, FALSE, None, None, metadata))
        ELSE LET r == got.resp IN
             IF r.status_code = 200 /\ Truthy(r.content) /\ BodyLen(r.content) > mb
             THEN LET content_type == Lower(HeadersGet(r.headers, "Content-Type", <<>>)) IN
                  IF Contains(content_type, IMAGE) \/ BodyLen(r.content) > FALLBACK_BYTES
                  THEN Returned(ResultTuple(url, TRUE, r.content, sha1_hash(r.content), metadata))
                  ELSE Returned(ResultTuple(url, FALSE, None, None, metadata))
             ELSE Returned(ResultTuple(url, FALSE, None, None, metadata))

\* validate_image(url, custom_session, min_bytes), given what s.get produced;
\* returns (is_valid, content, hash)
validate_image(url, custom_session, mb, got) ==
    IF got.kind = "exception"
    THEN Returned([is_valid |-> FALSE, content |-> None, hash |-> None])
    ELSE LET r == got.resp IN
         IF r.status_code = 200 /\ Truthy(r.content) /\ BodyLen(r.content) > mb
         THEN LET content_type == Lower(HeadersGet(r.headers, "Content-Type", <<>>)) IN
              IF Contains(content_type, IMAGE) \/ BodyLen(r.content) > FALLBACK_BYTES
              THEN Returned([is_valid |-> TRUE, content |-> r.content, hash |-> sha1_hash(r.content)])
              ELSE Returned([is_valid |-> FALSE, content |-> None, hash |-> None])
         ELSE Returned([is_valid |-> FALSE, content |-> None, hash |-> None])

(***************************************************************************)
(* The retry policy of make_session: Retry(total=3, backoff_factor=0.3,     *)
(* status_forcelist=(429, 500, 502, 503, 504)) mounted on the session's     *)
(* adapters.  The adapter sends the request; a transport error or a status  *)
(* of the forcelist makes it call Retry.increment, which takes one off      *)
(* total and raises MaxRetryError once the policy is exhausted (total below *)
(* 0); otherwise it sends the request again.                                *)
(***************************************************************************)
\* Retry.increment: total -= 1
RetryIncrement(total) == total - 1

\* exhausted one failure too late
IsExhaustedLate(total) == total < 0 - 1

\* Retry.is_exhausted: the count left is below 0
IsExhausted(total) == total < 0

(***************************************************************************)
(* validate_urls_parallel: the pure parts.                                  *)
(***************************************************************************)
Urls(list) == {list[i].url : i \in DOMAIN list}

\* {url: idx for idx, (url, _) in enumerate(url_metadata_list)}: a later
\* entry with the same url overwrites an earlier one; idx counts from 0
url_order(list) ==
    [u \in Urls(list) |->
        (CHOOSE i \in DOMAIN list :
            list[i].url = u /\ \A j \in DOMAIN list : list[j].url = u => j <= i) - 1]

\* key=lambda x: url_order.get(x[0], 999)
SortKey(order, x) == IF x.url \in DOMAIN order THEN order[x.url] ELSE MISSING_ORDER

RECURSIVE InsertSorted(_, _, _)
InsertSorted(x, s, order) ==
    IF s = <<>> THEN <<x>>
    ELSE IF SortKey(order, Head(s)) <= SortKey(order, x)
         THEN <<Head(s)>> \o InsertSorted(x, Tail(s), order)
         ELSE <<x>> \o s

\* the sort left out: the list stays in completion order
SortResultsNoSort(rs, order) == rs

\* results.sort(key=...): ascending by key, stable
RECURSIVE SortResults(_, _)
SortResults(rs, order) ==
    IF rs = <<>> THEN <<>>
    ELSE InsertSorted(rs[Len(rs)], SortResults(SubSeq(rs, 1, Len(rs) - 1), order), order)

\* the futures yielded last-submitted first
Reverse(s) == [a \in DOMAIN s |-> s[Len(s) + 1 - a]]

\* dict.update: the keys of m are set in d, the other keys of d stay
DictUpdate(d, m) == [k \in DOMAIN d \cup DOMAIN m |-> IF k \in DOMAIN m THEN m[k] ELSE d[k]]

\* the entry without the metadata
MakeImageUrlOnly(r) == [url |-> r.url]

\* img = {"url": url}; img.update(metadata)
MakeImage(r) == DictUpdate([url |-> r.url], r.metadata)

\* the loop without the seen_hashes test
RECURSIVE BuildImagesNoDedup(_, _, _, _)
BuildImagesNoDedup(rs, imgs, seen_hashes, cap) ==
    IF rs = <<>> THEN imgs
    ELSE IF Len(imgs) >= cap THEN imgs
    ELSE BuildImagesNoDedup(Tail(rs), Append(imgs, MakeImage(Head(rs))), seen_hashes, cap)

\* the loop with the cap test off by one (> for >=)
RECURSIVE BuildImagesOffByOne(_, _, _, _)
BuildImagesOffByOne(rs, imgs, seen_hashes, cap) ==
    IF rs = <<>> THEN imgs
    ELSE IF Len(imgs) > cap THEN imgs
    ELSE LET r == Head(rs) IN
         IF r.hash # None /\ r.hash \notin seen_hashes
         THEN BuildImagesOffByOne(Tail(rs), Append(imgs, MakeImage(r)), seen_hashes \cup {r.hash}, cap)
         ELSE BuildImagesOffByOne(Tail(rs), imgs, seen_hashes, cap)

\* for url, is_valid, content, img_hash, metadata in results: ... (lines 103-113)
RECURSIVE BuildImages(_, _, _, _)
BuildImages(rs, imgs, seen_hashes, cap) ==
    IF rs = <<>> THEN imgs
    ELSE IF Len(imgs) >= cap THEN imgs
    ELSE LET r == Head(rs) IN
         IF r.hash # None /\ r.hash \notin seen_hashes
         THEN BuildImages(Tail(rs), Append(imgs, MakeImage(r)), seen_hashes \cup {r.hash}, cap)
         ELSE BuildImages(Tail(rs), imgs, seen_hashes, cap)

\* lines 92-97: future.result() and the append of a valid result, inside
\* try / except: pass; "raised" tells whether an exception leaves the loop body
CollectResult(rs, out) ==
    IF out.raised THEN [results |-> rs, raised |-> FALSE]
    ELSE IF out.value.is_valid
         THEN [results |-> Append(rs, out.value), raised |-> FALSE]
         ELSE [results |-> rs, raised |-> FALSE]

(***************************************************************************)
(* One call of validate_urls_parallel.                                      *)
(*                                                                          *)
(* URLs and bodies are opaque to the engine: only their equality is read.   *)
(* A candidate list therefore names its URLs 1, 2, ... in order of first    *)
(* appearance, and a fetch names a body new to the call with the next free  *)
(* number.  The metadata of the candidate at position i is {"tag": i}, so  *)
(* that an entry of the output identifies the candidate it came from.       *)
(***************************************************************************)
Url(k) == <<"url", k>>

SetMax(S) == IF S = {} THEN 0 ELSE CHOOSE m \in S : \A x \in S : x <= m

FirstAppearanceOrder(ids) ==
    \A i \in DOMAIN ids : ids[i] <= 1 + SetMax({ids[j] : j \in 1..(i - 1)})

CandidateLists ==
    UNION {{[i \in 1..n |-> [url |-> Url(ids[i]), metadata |-> [tag |-> i]]] :
                ids \in {f \in [1..n -> 1..n] : FirstAppearanceOrder(f)}} :
           n \in 1..MaxCands}

Caps == (0 - 1)..MaxCap

\* args_list = [(url, meta, custom_session, min_bytes) for url, meta in url_metadata_list]
args_list(list, custom_session, mb) ==
    [i \in DOMAIN list |-> <<list[i].url, list[i].metadata, custom_session, mb>>]

\* no answer yet
NotYet == [kind |-> "pending"]

PendingFuture ==
    [state |-> "pending", got |-> NotYet, error |-> FALSE, raised |-> FALSE, result |-> None]

\* the body numbers a fetch of this call may return
BodyIds ==
    LET used == {futures[j].result.content.id :
                    j \in {k \in DOMAIN futures :
                            futures[k].state = "done" /\ ~futures[k].raised
                            /\ futures[k].result.is_valid}}
    IN  1..(IF Cardinality(used) + 1 <= Len(futures) THEN Cardinality(used) + 1 ELSE Len(futures))

\* what s.get may produce for a candidate of this call
EngineGot ==
    {GotException,
     GotResponse(Response(404, ContentTypeHeader(CT_TEXT_HTML), Body(0, 512))),
     GotResponse(Response(200, ContentTypeHeader(CT_IMAGE_JPEG), Body(0, min_bytes)))}
    \cup {GotResponse(Response(200, ContentTypeHeader(CT_IMAGE_JPEG), Body(k, min_bytes + 1))) :
            k \in BodyIds}

FetchIdle ==
    /\ f_pc = "idle"
    /\ f_fn = "none"
    /\ f_min_bytes = 0
    /\ f_total = 0
    /\ f_requests = 0
    /\ f_outcome = GotException
    /\ f_result = Raised

EngineIdle ==
    /\ pc = "idle"
    /\ url_metadata_list = <<>>
    /\ max_images = 0
    /\ min_bytes = 0
    /\ futures = <<>>
    /\ results = <<>>
    /\ arrival = <<>>
    /\ images = <<>>

PoolIdle ==
    /\ p_pc = "idle"
    /\ p_n = 0
    /\ p_started = 0
    /\ p_done = {}

LevisIdle ==
    /\ l_pc = "idle"
    /\ l_futures = <<>>
    /\ l_result = None
    /\ l_sku_code = None
    /\ l_max_images = 0
    /\ l_valid_images = <<>>
    /\ l_response = None

HandlerIdle ==
    /\ h_pc = "idle"
    /\ h_handler = "none"
    /\ h_sku = <<>>
    /\ h_max_images = 0
    /\ h_input = <<>>
    /\ h_response = None

Idle == EngineIdle /\ FetchIdle /\ PoolIdle /\ LevisIdle /\ HandlerIdle

Init == Idle

\* the empty list rejected with an exception
CallEmptyRejects(cap, mb) ==
    /\ pc = "idle"
    /\ pc' = "raised"
    /\ url_metadata_list' = <<>>
    /\ max_images' = cap
    /\ min_bytes' = mb
    /\ UNCHANGED <<futures, results, arrival, images>>
    /\ UNCHANGED other_than_engine

\* lines 82-83: if not url_metadata_list: return []
CallEmpty(cap, mb) ==
    /\ pc = "idle"
    /\ pc' = "done"
    /\ url_metadata_list' = <<>>
    /\ max_images' = cap
    /\ min_bytes' = mb
    /\ images' = <<>>
    /\ UNCHANGED <<futures, results, arrival>>
    /\ UNCHANGED other_than_engine

\* the last candidate left without a future
SubmitAllButLast(list) == [i \in 1..(Len(list) - 1) |-> PendingFuture]

\* futures = [executor.submit(validate_single_url, args) for args in args_list]
SubmitAll(list) == [i \in DOMAIN list |-> PendingFuture]

\* lines 85-90: the call with a non-empty list submits one future per candidate
Call(list, cap, mb) ==
    /\ pc = "idle"
    /\ list # <<>>
    /\ pc' = "fetching"
    /\ url_metadata_list' = list
    /\ max_images' = cap
    /\ min_bytes' = mb
    /\ futures' = SubmitAll(list)
    /\ results' = <<>>
    /\ arrival' = <<>>
    /\ images' = <<>>
    /\ UNCHANGED other_than_engine

\* lines 91-97: as_completed yields future i, whose worker ran validate_single_url
Complete(i, got) ==
    /\ pc = "fetching"
    /\ i \in DOMAIN futures
    /\ futures[i].state = "pending"
    /\ LET out == validate_single_url(args_list(url_metadata_list, None, min_bytes)[i], got)
           collected == CollectResult(results, out)
       IN  /\ futures' = [futures EXCEPT ![i] =
                            [state |-> "done", got |-> got, error |-> (got.kind = "exception"),
                             raised |-> out.raised, result |-> out.value]]
           /\ results' = collected.results
           /\ arrival' = IF Len(collected.results) > Len(results)
                         THEN Append(arrival, i) ELSE arrival
           /\ pc' = IF collected.raised THEN "raised" ELSE pc
    /\ UNCHANGED <<url_metadata_list, max_images, min_bytes, images>>
    /\ UNCHANGED other_than_engine

\* the loop left as soon as one future has been yielded
AllSettledAfterFirst(fs) == \E i \in DOMAIN fs : fs[i].state = "done"

\* for future in as_completed(futures): the loop ends when every future of
\* the dict has been yielded
AllSettled(fs) == \A i \in DOMAIN fs : fs[i].state = "done"

\* lines 99-115: every future has been yielded; sort, deduplicate, cap, return
Finalize ==
    /\ pc = "fetching"
    /\ AllSettled(futures)
    /\ LET sorted == SortResults(results, url_order(url_metadata_list))
       IN  /\ results' = sorted
           /\ images' = BuildImages(sorted, <<>>, {}, max_images)
    /\ pc' = "done"
    /\ UNCHANGED <<url_metadata_list, max_images, min_bytes, futures, arrival>>
    /\ UNCHANGED other_than_engine

Next ==
    \/ \E cap \in Caps : CallEmpty(cap, MIN_BYTES)
    \/ \E list \in CandidateLists, cap \in Caps : Call(list, cap, MIN_BYTES)
    \/ \E i \in 1..MaxCands, got \in EngineGot : Complete(i, got)
    \/ Finalize

Spec == Init /\ [][Next]_vars

\* how a fetch settles: s.get times out, or it returns an image
SettledGot ==
    {GotException,
     GotResponse(Response(200, ContentTypeHeader(CT_IMAGE_JPEG), Body(1, min_bytes + 1)))}

\* the candidate lists with pairwise distinct URLs, and those that repeat
\* one URL throughout
SettledLists ==
    {list \in CandidateLists :
        Cardinality(Urls(list)) = Len(list) \/ Cardinality(Urls(list)) = 1}

FairNext ==
    \/ \E cap \in Caps : CallEmpty(cap, MIN_BYTES)
    \/ \E list \in SettledLists, cap \in Caps : Call(list, cap, MIN_BYTES)
    \/ \E i \in 1..MaxCands, got \in SettledGot : Complete(i, got)
    \/ Finalize

\* the engine with its scheduling: while fetches are pending one of them
\* settles (the worker threads run, and s.get returns or raises within
\* TIMEOUT), and the calling thread goes on once as_completed has yielded
\* every future
FairSpec ==
    /\ Init
    /\ [][FairNext]_vars
    /\ WF_vars(\E i \in 1..MaxCands, got \in SettledGot : Complete(i, got))
    /\ WF_vars(Finalize)

(***************************************************************************)
(* One call of validate_single_url or validate_image on the default         *)
(* session, request by request.                                             *)
(***************************************************************************)
FetchFunctions == {"validate_single_url", "validate_image"}

\* the url and the metadata of the one candidate fetched
FetchUrl == Url(1)
FetchMetadata == [position |-> 1]

\* the Content-Type headers a server may send, or none
FetchHeaders ==
    {NoHeaders, ContentTypeHeader(CT_IMAGE_JPEG), ContentTypeHeader(CT_IMAGE_UPPER),
     ContentTypeHeader(CT_TEXT_HTML), ContentTypeHeader(CT_OCTET)}

\* body lengths around the two thresholds
FetchLengths(mb) == {0, mb, mb + 1, FALLBACK_BYTES, FALLBACK_BYTES + 1}

\* statuses outside the forcelist
FetchStatuses == {200, 404}

FetchResponses(mb) ==
    {Response(st, h, Body(1, n)) : st \in FetchStatuses, h \in FetchHeaders, n \in FetchLengths(mb)}

\* the function's try block and except clause around s.get
RunFetchFunction(fn, mb, got) ==
    IF fn = "validate_single_url"
    THEN validate_single_url(<<FetchUrl, FetchMetadata, None, mb>>, got)
    ELSE validate_image(FetchUrl, None, mb, got)

FetchInit == Idle

\* validate_single_url(args) / validate_image(url, ...) is entered: s.get starts
\* with the retry policy of the session
FetchCall(fn, mb) ==
    /\ f_pc = "idle"
    /\ f_pc' = "sending"
    /\ f_fn' = fn
    /\ f_min_bytes' = mb
    /\ f_total' = RETRY_TOTAL
    /\ f_requests' = 0
    /\ UNCHANGED <<f_outcome, f_result>>
    /\ UNCHANGED other_than_fetch

\* a request is sent and fails (transport error or forcelist status) while the
\* policy is not exhausted: the adapter will send it again
AttemptRetried ==
    /\ f_pc = "sending"
    /\ ~IsExhausted(RetryIncrement(f_total))
    /\ f_requests' = f_requests + 1
    /\ f_total' = RetryIncrement(f_total)
    /\ UNCHANGED <<f_pc, f_fn, f_min_bytes, f_outcome, f_result>>
    /\ UNCHANGED other_than_fetch

\* a request is sent and fails, and the policy is exhausted: s.get raises,
\* and the function's except clause runs
AttemptExhausted ==
    /\ f_pc = "sending"
    /\ IsExhausted(RetryIncrement(f_total))
    /\ f_requests' = f_requests + 1
    /\ f_total' = RetryIncrement(f_total)
    /\ f_outcome' = GotException
    /\ f_result' = RunFetchFunction(f_fn, f_min_bytes, GotException)
    /\ f_pc' = "returned"
    /\ UNCHANGED <<f_fn, f_min_bytes>>
    /\ UNCHANGED other_than_fetch

\* a request is sent and s.get raises an error the adapter does not retry
\* (the body breaks off while it is read)
AttemptRaises ==
    /\ f_pc = "sending"
    /\ f_requests' = f_requests + 1
    /\ f_outcome' = GotException
    /\ f_result' = RunFetchFunction(f_fn, f_min_bytes, GotException)
    /\ f_pc' = "returned"
    /\ UNCHANGED <<f_fn, f_min_bytes, f_total>>
    /\ UNCHANGED other_than_fetch

\* a request is sent and answered with a status outside the forcelist: s.get
\* returns the response and the function applies its rule
AttemptAnswered(r) ==
    /\ f_pc = "sending"
    /\ r.status_code \notin STATUS_FORCELIST
    /\ f_requests' = f_requests + 1
    /\ f_outcome' = GotResponse(r)
    /\ f_result' = RunFetchFunction(f_fn, f_min_bytes, GotResponse(r))
    /\ f_pc' = "returned"
    /\ UNCHANGED <<f_fn, f_min_bytes, f_total>>
    /\ UNCHANGED other_than_fetch

FetchNext ==
    \/ \E fn \in FetchFunctions, mb \in HandlerMinBytes : FetchCall(fn, mb)
    \/ AttemptRetried
    \/ AttemptExhausted
    \/ AttemptRaises
    \/ \E r \in FetchResponses(f_min_bytes) : AttemptAnswered(r)

FetchSpec == FetchInit /\ [][FetchNext]_vars

(***************************************************************************)
(* Vocabulary of the properties of validate_urls_parallel.                  *)
(***************************************************************************)
Done == pc = "done"

\* the fetch of the candidate at position i returned a valid result
Valid(i) ==
    /\ i \in DOMAIN futures
    /\ futures[i].state = "done"
    /\ ~futures[i].raised
    /\ futures[i].result.is_valid

ValidPositions == {i \in DOMAIN futures : Valid(i)}

HashOf(i) == futures[i].result.hash

\* the positions of the candidates the returned entries come from
KeptPositions == {images[a].tag : a \in DOMAIN images}

DistinctUrls ==
    \A i, j \in DOMAIN url_metadata_list :
        i # j => url_metadata_list[i].url # url_metadata_list[j].url

\* the k-th smallest element of a set of positions
RECURSIVE Ascending(_)
Ascending(S) ==
    IF S = {} THEN <<>>
    ELSE LET m == CHOOSE x \in S : \A y \in S : x <= y
         IN  <<m>> \o Ascending(S \ {m})

\* C1: with pairwise distinct URLs the returned entries are in strictly
\* ascending order of their candidates' positions in the input list, whatever
\* the order in which the fetches completed.
C1_InputOrder ==
    (Done /\ DistinctUrls) =>
        \A a, b \in DOMAIN images : a < b => images[a].tag < images[b].tag

\* C1 witness: two entries were kept although their results arrived in
\* descending order of position.
C1_Witness ==
    /\ Done
    /\ DistinctUrls
    /\ Len(images) >= 2
    /\ \E a, b \in DOMAIN arrival :
        /\ a < b
        /\ arrival[a] > arrival[b]
        /\ {arrival[a], arrival[b]} \subseteq KeptPositions

\* C2: the kept entries come from fetches with pairwise distinct content hashes.
C2_DistinctHashes ==
    Done =>
        \A a, b \in DOMAIN images :
            a # b => HashOf(images[a].tag) # HashOf(images[b].tag)

\* C2 witness: two valid fetches produced the same hash, the cap left room
\* for both, and one entry was returned for them.
C2_Witness ==
    /\ Done
    /\ Len(images) >= 1
    /\ Len(images) < max_images
    /\ \E i, j \in ValidPositions : i # j /\ HashOf(i) = HashOf(j)

\* C3, as stated: of two valid candidates with distinct URLs and the same
\* hash, the one at the higher position is never kept, and the one at the
\* lower position is kept when it is the first valid candidate with that hash
\* and fewer than max_images distinct hashes precede it.
C3_LowerPositionKept ==
    Done =>
        \A i, j \in ValidPositions :
            (/\ i < j
             /\ url_metadata_list[i].url # url_metadata_list[j].url
             /\ HashOf(i) = HashOf(j)) =>
                /\ j \notin KeptPositions
                /\ ((/\ \A h \in ValidPositions : h < i => HashOf(h) # HashOf(i)
                     /\ Cardinality({HashOf(h) : h \in {x \in ValidPositions : x < i}})
                            < max_images)
                        => i \in KeptPositions)

\* C4: with max_images >= 0 the returned list has at most max_images entries.
C4_Cap ==
    (Done /\ max_images >= 0) => Len(images) <= max_images

\* C4 witness: more distinct valid images than the cap allows were fetched
\* and exactly max_images were returned.
C4_Witness ==
    /\ Done
    /\ max_images >= 1
    /\ Len(images) = max_images
    /\ Cardinality({HashOf(i) : i \in ValidPositions}) > max_images

\* C5, as stated: when the N valid candidates have pairwise distinct hashes
\* and 0 <= max_images = K < N, exactly K entries are returned and their URLs
\* are, in input order, those of the K valid candidates at the lowest
\* positions.
C5_LowestK ==
    (/\ Done
     /\ \A i, j \in ValidPositions : i # j => HashOf(i) # HashOf(j)
     /\ max_images >= 0
     /\ max_images < Cardinality(ValidPositions)) =>
        /\ Len(images) = max_images
        /\ \A a \in DOMAIN images :
            images[a].url = url_metadata_list[Ascending(ValidPositions)[a]].url

\* C9: a transport error raised by the fetch of a candidate yields a returned,
\* not-valid result for that candidate, and no exception leaves
\* validate_single_url or validate_urls_parallel.
C9_ErrorsAbsorbed ==
    /\ pc # "raised"
    /\ \A i \in DOMAIN futures :
        futures[i].state = "done" =>
            /\ ~futures[i].raised
            /\ futures[i].error => ~futures[i].result.is_valid

\* C9 witness: the call returned entries although a fetch of it met a
\* transport error.
C9_Witness ==
    /\ Done
    /\ Len(images) >= 1
    /\ \E i \in DOMAIN futures : futures[i].error

(***************************************************************************)
(* The call repeated on the list with the failing candidates removed: each  *)
(* remaining candidate keeps its url, its metadata and the result of its    *)
(* fetch, and the fetches complete in the order perm.                       *)
(***************************************************************************)
CompletionOrders(n) ==
    {p \in [1..n -> 1..n] : \A x, y \in 1..n : x # y => p[x] # p[y]}

WithoutFailing == SelectSeq(url_metadata_list, LAMBDA c : Valid(c.metadata.tag))

ReturnOf(list, perm) ==
    IF list = <<>> THEN <<>>
    ELSE BuildImages(
            SortResults([k \in 1..Len(list) |-> futures[list[perm[k]].metadata.tag].result],
                        url_order(list)),
            <<>>, {}, max_images)

\* C10, as stated: the returned list equals the list the call returns for
\* the same candidates with every failing candidate removed (under at least
\* one completion order of that second call).
C10_FailureIsolated ==
    Done =>
        \E perm \in CompletionOrders(Len(WithoutFailing)) :
            images = ReturnOf(WithoutFailing, perm)

(***************************************************************************)
(* The three statements above that fail on lists with a repeated URL hold   *)
(* on lists whose URLs are pairwise distinct.                               *)
(***************************************************************************)
\* C3 on lists with pairwise distinct URLs.
C3_WithDistinctUrls == DistinctUrls => C3_LowerPositionKept

\* C5 on lists with pairwise distinct URLs.
C5_WithDistinctUrls == DistinctUrls => C5_LowestK

\* C10 on lists with pairwise distinct URLs, under every completion order of
\* the second call.
C10_WithDistinctUrls ==
    (Done /\ DistinctUrls) =>
        \A perm \in CompletionOrders(Len(WithoutFailing)) :
            images = ReturnOf(WithoutFailing, perm)

(***************************************************************************)
(* Vocabulary of the properties of the fetcher.                             *)
(***************************************************************************)
Fetched == f_pc = "returned"

GotA200 == f_outcome.kind = "response" /\ f_outcome.resp.status_code = 200

\* the Content-Type header as the server sent it ("" when it sent none)
SentContentType ==
    IF "Content-Type" \in DOMAIN f_outcome.resp.headers
    THEN f_outcome.resp.headers["Content-Type"]
    ELSE <<>>

SentLength == f_outcome.resp.content.len

IMAGE_CAPITALS == <<"I", "M", "A", "G", "E">>

\* s contains the word image, each letter in either case
ContainsImageAnyCase(s) ==
    \E k \in 0..(Len(s) - Len(IMAGE)) :
        \A i \in 1..Len(IMAGE) : s[k + i] \in {IMAGE[i], IMAGE_CAPITALS[i]}

\* C6: validate_single_url and validate_image report the candidate valid if
\* and only if the status is 200, the body is longer than min_bytes and either
\* the Content-Type header contains "image" (in any letter case: media types
\* are case-insensitive) or the body is longer than 20000 bytes.
C6_Rule ==
    Fetched =>
        /\ ~f_result.raised
        /\ f_result.value.is_valid <=>
            (/\ GotA200
             /\ SentLength > f_min_bytes
             /\ (ContainsImageAnyCase(SentContentType) \/ SentLength > 20000))

\* C6 witness: a body below the fallback threshold was accepted on a
\* Content-Type header that spells image with a capital.
C6_Witness ==
    /\ Fetched
    /\ GotA200
    /\ SentContentType = CT_IMAGE_UPPER
    /\ SentLength <= 20000
    /\ f_result.value.is_valid

\* C7: validate_single_url rejects a 200 image response of exactly min_bytes
\* bytes and accepts one of min_bytes + 1 bytes, for every min_bytes a handler
\* passes.
C7_Boundary ==
    (/\ Fetched
     /\ f_fn = "validate_single_url"
     /\ GotA200
     /\ ContainsImageAnyCase(SentContentType)) =>
        /\ SentLength = f_min_bytes => ~f_result.value.is_valid
        /\ SentLength = f_min_bytes + 1 => f_result.value.is_valid

\* C7 witness: a 200 image response of min_bytes + 1 bytes was accepted under
\* a threshold other than the default.
C7_Witness ==
    /\ Fetched
    /\ f_fn = "validate_single_url"
    /\ GotA200
    /\ SentContentType = CT_IMAGE_JPEG
    /\ f_min_bytes # MIN_BYTES
    /\ SentLength = f_min_bytes + 1
    /\ f_result.value.is_valid

\* C8, as stated: at most 3 HTTP requests are sent for one candidate.
C8_AtMost3Requests == f_requests <= 3

\* C8, amended: at most 4 HTTP requests are sent for one request of a
\* candidate: the first attempt and at most 3 retries.
C8_AtMost4Requests == f_requests <= RETRY_TOTAL + 1

\* C8 witness: the fetch ended after 4 requests.
C8_Witness == Fetched /\ f_requests = 4

(***************************************************************************)
(* Further properties of validate_urls_parallel.                            *)
(***************************************************************************)
\* C11: the returned list is sorted, deduplicated and capped only when no
\* submitted fetch is still in flight: whenever the call has built its list,
\* every future it submitted is done.
C11_BuildAfterAllSettled ==
    (pc = "done" \/ images # <<>>) =>
        \A i \in DOMAIN futures : futures[i].state = "done"

\* C11 witness: a call with several fetches returned entries.
C11_Witness ==
    /\ Done
    /\ Len(futures) >= 2
    /\ Len(images) >= 1
    /\ Len(images) < Len(futures)

\* the backend answers each URL with one fixed response
SameBackend ==
    \A i, j \in DOMAIN futures :
        url_metadata_list[i].url = url_metadata_list[j].url => futures[i].got = futures[j].got

\* the results a second run on the same list collects when its fetches
\* complete in the order perm, each fetch getting the response of the first run
RECURSIVE CollectInOrder(_, _)
CollectInOrder(perm, k) ==
    IF k = 0 THEN <<>>
    ELSE CollectResult(CollectInOrder(perm, k - 1),
                       validate_single_url(
                           args_list(url_metadata_list, None, min_bytes)[perm[k]],
                           futures[perm[k]].got)).results

SecondRun(perm) ==
    BuildImages(SortResults(CollectInOrder(perm, Len(perm)), url_order(url_metadata_list)),
                <<>>, {}, max_images)

UrlsOf(imgs) == [a \in DOMAIN imgs |-> imgs[a].url]

\* C12: against a backend that answers each URL with a fixed response, a
\* second run on the same list returns the same URLs in the same order (and so
\* the same number of them), whatever the completion orders of the two runs.
C12_Deterministic ==
    (Done /\ futures # <<>> /\ SameBackend) =>
        \A perm \in CompletionOrders(Len(futures)) :
            UrlsOf(SecondRun(perm)) = UrlsOf(images)

\* C12 witness: a list with a repeated URL, answered consistently, returned
\* two entries although results arrived out of input order.
C12_Witness ==
    /\ Done
    /\ SameBackend
    /\ ~DistinctUrls
    /\ Len(images) >= 2
    /\ \E a, b \in DOMAIN arrival : a < b /\ arrival[a] > arrival[b]

\* the fetch of candidate i did not get an acceptable image: an exception, a
\* status other than 200, a body of at most min_bytes bytes, or a body of at
\* most 20000 bytes without an image Content-Type
FailsValidation(i) ==
    LET g == futures[i].got IN
    \/ g.kind = "exception"
    \/ /\ g.kind = "response"
       /\ \/ g.resp.status_code # 200
          \/ g.resp.content.len <= min_bytes
          \/ /\ g.resp.content.len <= 20000
             /\ ~ContainsImageAnyCase(IF "Content-Type" \in DOMAIN g.resp.headers
                                      THEN g.resp.headers["Content-Type"] ELSE <<>>)

\* C13: when the fetch of every candidate fails validation, the call returns
\* the empty list: no exception leaves it and no entry is collected or
\* returned.
C13_AllFailEmpty ==
    (/\ futures # <<>>
     /\ \A i \in DOMAIN futures : futures[i].state = "done" /\ FailsValidation(i)) =>
        /\ pc \in {"fetching", "done"}
        /\ results = <<>>
        /\ images = <<>>

\* C13 witness: a call with room for entries returned the empty list after
\* one fetch raised and another was answered with a 200 that failed the rule.
C13_Witness ==
    /\ Done
    /\ max_images >= 1
    /\ images = <<>>
    /\ \A i \in DOMAIN futures : FailsValidation(i)
    /\ \E i, j \in DOMAIN futures :
        /\ futures[i].got.kind = "exception"
        /\ futures[j].got.kind = "response"
        /\ futures[j].got.resp.status_code = 200

\* the call was made with an empty candidate list or with max_images <= 0
Malformed == pc # "idle" /\ (url_metadata_list = <<>> \/ max_images <= 0)

C18_EntriesCarryCandidate ==
    /\ [](Done =>
            \A a \in DOMAIN images :
                \E i \in ValidPositions :
                    LET c == url_metadata_list[i] IN
                    /\ DOMAIN images[a] = {"url"} \cup DOMAIN c.metadata
                    /\ images[a].url = c.url
                    /\ \A k \in DOMAIN c.metadata : images[a][k] = c.metadata[k])
    /\ [][pc # "idle" => url_metadata_list' = url_metadata_list]_vars

\* C18 witness: an entry was returned at an output position other than its
\* candidate's position in the list.
C18_Witness ==
    /\ Done
    /\ \E a \in DOMAIN images : images[a].tag # a

(***************************************************************************)
(* The worker pool of validate_urls_parallel:                               *)
(* ThreadPoolExecutor(max_workers=MAX_VALIDATION_WORKERS).  submit queues   *)
(* every fetch; a worker thread takes up the oldest queued fetch when it is *)
(* free, and the executor never runs more than max_workers threads.         *)
(***************************************************************************)
MAX_VALIDATION_WORKERS == 15

\* longest candidate list submitted to the pool
MaxPoolCands == 16

\* the fetches taken up by a worker and not finished
InFlight == (1..p_started) \ p_done

\* a thread for every submitted fetch
CanStartUnbounded(in_flight) == TRUE

\* a queued fetch is taken up when fewer than max_workers threads are busy
CanStart(in_flight) == Cardinality(in_flight) < MAX_VALIDATION_WORKERS

\* lines 89-90: every fetch of the list is submitted
PoolSubmit(n) ==
    /\ p_pc = "idle"
    /\ p_pc' = "running"
    /\ p_n' = n
    /\ p_started' = 0
    /\ p_done' = {}
    /\ UNCHANGED other_than_pool

\* a worker thread takes up the oldest queued fetch
PoolStart ==
    /\ p_pc = "running"
    /\ p_started < p_n
    /\ CanStart(InFlight)
    /\ p_started' = p_started + 1
    /\ UNCHANGED <<p_pc, p_n, p_done>>
    /\ UNCHANGED other_than_pool

\* the fetch i returns and its worker thread is free again
PoolFinish(i) ==
    /\ p_pc = "running"
    /\ i \in InFlight
    /\ p_done' = p_done \cup {i}
    /\ UNCHANGED <<p_pc, p_n, p_started>>
    /\ UNCHANGED other_than_pool

\* every future has been yielded: the with block is left
PoolExit ==
    /\ p_pc = "running"
    /\ p_done = 1..p_n
    /\ p_pc' = "done"
    /\ UNCHANGED <<p_n, p_started, p_done>>
    /\ UNCHANGED other_than_pool

PoolInit == Idle

PoolNext ==
    \/ \E n \in 1..MaxPoolCands : PoolSubmit(n)
    \/ PoolStart
    \/ \E i \in 1..MaxPoolCands : PoolFinish(i)
    \/ PoolExit

PoolSpec == PoolInit /\ [][PoolNext]_vars

\* C16: the number of fetches in flight never exceeds MAX_VALIDATION_WORKERS
\* (15), however long the candidate list; the fetches beyond it stay queued
\* until a fetch in flight finishes.
C16_AtMost15InFlight ==
    /\ Cardinality(InFlight) <= 15
    /\ (p_pc = "running" /\ Cardinality(InFlight) = 15) => ~ENABLED PoolStart

\* C16 witness: 15 fetches are in flight and another one is queued.
C16_Witness ==
    /\ p_pc = "running"
    /\ Cardinality(InFlight) = 15
    /\ p_started < p_n

(***************************************************************************)
(* scrape_replay: its own validator (validate_replay_url, with the          *)
(* placeholder filter) and its own copy of the collect / sort / deduplicate *)
(* / cap pipeline, followed by the numbering of the images.  The request    *)
(* has passed the SKU checks of lines 1109-1138; brand_code, which is       *)
(* computed from the SKU alone, is left out of the response.                *)
(***************************************************************************)
WATERMARK_SIZE == 26238
\* len(r.content) >= 8000
REPLAY_MIN_BYTES == 8000
\* for pos in range(1, 11)
REPLAY_POSITIONS == 10
WATERMARK_MD5 == <<"b7b532cb2ea2ae3c91decf2bc87b1c01">>
WATERMARK_HASHES == {WATERMARK_MD5}
REGIONS == <<"gr", "it", "de", "fr", "es", "eu", "uk">>

\* number of candidates of url_list that are explored (its first ones)
MaxReplayCands == 3

\* the bytes of the placeholder image whose md5 digest is listed
WatermarkBody == Body(0, WATERMARK_SIZE + 1)

\* hashlib.md5(content).hexdigest(): equal digests exactly for equal bytes
md5_hash(content) ==
    IF content = WatermarkBody THEN WATERMARK_MD5 ELSE <<"md5", content.id, content.len>>

\* the validator without the size test
validate_replay_url_no_size(args, got) ==
    LET url == args[1]
        metadata == args[2]
    IN  IF got.kind = "exception"
        THEN Returned(ResultTuple(url, FALSE, None, None, metadata))
        ELSE LET r == got.resp IN
             IF r.status_code = 200 /\ BodyLen(r.content) >= REPLAY_MIN_BYTES
             THEN LET ctype == Lower(HeadersGet(r.headers, "Content-Type", <<>>)) IN
                  IF Contains(ctype, IMAGE)
                  THEN LET img_hash == md5_hash(r.content) IN
                       IF img_hash \in WATERMARK_HASHES
                       THEN Returned(ResultTuple(url, FALSE, None, None, metadata))
                       ELSE Returned(ResultTuple(url, TRUE, r.content, img_hash, metadata))
                  ELSE Returned(ResultTuple(url, FALSE, None, None, metadata))
             ELSE Returned(ResultTuple(url, FALSE, None, None, metadata))

\* validate_replay_url(args), given what session.get(url, timeout=12) produced
validate_replay_url(args, got) ==
    LET url == args[1]
        metadata == args[2]
    IN  IF got.kind = "exception"
        THEN Returned(ResultTuple(url, FALSE, None, None, metadata))
        ELSE LET r == got.resp IN
             IF r.status_code = 200 /\ BodyLen(r.content) >= REPLAY_MIN_BYTES
             THEN LET ctype == Lower(HeadersGet(r.headers, "Content-Type", <<>>)) IN
                  IF Contains(ctype, IMAGE)
                  THEN IF BodyLen(r.content) = WATERMARK_SIZE
                       THEN Returned(ResultTuple(url, FALSE, None, None, metadata))
                       ELSE LET img_hash == md5_hash(r.content) IN
                            IF img_hash \in WATERMARK_HASHES
                            THEN Returned(ResultTuple(url, FALSE, None, None, metadata))
                            ELSE Returned(ResultTuple(url, TRUE, r.content, img_hash, metadata))
                  ELSE Returned(ResultTuple(url, FALSE, None, None, metadata))
             ELSE Returned(ResultTuple(url, FALSE, None, None, metadata))

\* the first n candidates of url_list: for region in REGIONS: for pos in range(1, 11)
ReplayUrlList(n) ==
    [i \in 1..n |->
        [url |-> Url(i),
         metadata |-> [region |-> REGIONS[((i - 1) \div REPLAY_POSITIONS) + 1],
                       position |-> ((i - 1) % REPLAY_POSITIONS) + 1]]]

\* lines 1187-1194: the loop over the sorted results
RECURSIVE ReplayBuildImages(_, _, _, _)
ReplayBuildImages(rs, imgs, seen_hashes, cap) ==
    IF rs = <<>> THEN imgs
    ELSE IF Len(imgs) >= cap THEN imgs
    ELSE LET r == Head(rs) IN
         IF r.hash # None /\ r.hash \notin seen_hashes
         THEN ReplayBuildImages(Tail(rs),
                                Append(imgs, [url |-> r.url, region |-> r.metadata.region,
                                              position |-> r.metadata.position]),
                                seen_hashes \cup {r.hash}, cap)
         ELSE ReplayBuildImages(Tail(rs), imgs, seen_hashes, cap)

DIGITS == <<"0", "1", "2", "3", "4", "5", "6", "7", "8", "9">>

\* str(n) for n >= 0
RECURSIVE Decimal(_)
Decimal(n) ==
    IF n < Len(DIGITS) THEN <<DIGITS[n + 1]>>
    ELSE Decimal(n \div Len(DIGITS)) \o <<DIGITS[(n % Len(DIGITS)) + 1]>>

\* re.sub(r'[{}]', '', sku).replace(' ', '_')
ReplayFileStem(sku) ==
    LET stripped == SelectSeq(sku, LAMBDA c : c \notin {"{", "}"})
    IN  [i \in DOMAIN stripped |-> IF stripped[i] = " " THEN "_" ELSE stripped[i]]

\* lines 1196-1198: for idx, img in enumerate(images): index and filename
ReplayNumbered(imgs, sku) ==
    [a \in DOMAIN imgs |->
        LET idx == a - 1 IN
        DictUpdate(imgs[a], [index |-> idx + 1,
                             filename |-> ReplayFileStem(sku) \o <<"-">> \o Decimal(idx + 1)])]

\* jsonify(...): the body with the default status 200
Jsonify(body) == [status |-> 200, body |-> body]

\* SKUs that pass parse_replay_sku
ReplaySkus == {<<"M", "9", " ", "{", "4", " ", "5", "}", "1">>, <<"M", "9", "A", "1", "0", "0", "1">>}

\* what session.get may produce for a candidate of this request
ReplayGot ==
    {GotException,
     GotResponse(Response(200, ContentTypeHeader(CT_IMAGE_JPEG), Body(0, REPLAY_MIN_BYTES - 1))),
     GotResponse(Response(200, ContentTypeHeader(CT_OCTET), Body(0, FALLBACK_BYTES + 1))),
     GotResponse(Response(200, ContentTypeHeader(CT_IMAGE_UPPER), Body(1, WATERMARK_SIZE))),
     GotResponse(Response(200, ContentTypeHeader(CT_IMAGE_JPEG), WatermarkBody))}
    \cup {GotResponse(Response(200, ContentTypeHeader(CT_IMAGE_JPEG), Body(k, REPLAY_MIN_BYTES))) :
            k \in BodyIds}

\* lines 1105-1178: the request is parsed, url_list is built and every
\* candidate is submitted to the executor
ReplayCall(sku, cap, n) ==
    /\ pc = "idle"
    /\ h_pc = "idle"
    /\ pc' = "fetching"
    /\ url_metadata_list' = ReplayUrlList(n)
    /\ max_images' = cap
    /\ min_bytes' = REPLAY_MIN_BYTES
    /\ futures' = [i \in 1..n |-> PendingFuture]
    /\ results' = <<>>
    /\ arrival' = <<>>
    /\ images' = <<>>
    /\ h_handler' = "scrape_replay"
    /\ h_sku' = sku
    /\ h_max_images' = cap
    /\ UNCHANGED <<h_pc, h_input, h_response>>
    /\ UNCHANGED <<fetch_vars, pool_vars, levis_vars>>

\* lines 1179-1185: as_completed yields future i, whose worker ran validate_replay_url
ReplayComplete(i, got) ==
    /\ pc = "fetching"
    /\ h_handler = "scrape_replay"
    /\ i \in DOMAIN futures
    /\ futures[i].state = "pending"
    /\ LET out == validate_replay_url(args_list(url_metadata_list, None, min_bytes)[i], got)
           collected == CollectResult(results, out)
       IN  /\ futures' = [futures EXCEPT ![i] =
                            [state |-> "done", got |-> got, error |-> (got.kind = "exception"),
                             raised |-> out.raised, result |-> out.value]]
           /\ results' = collected.results
           /\ arrival' = IF Len(collected.results) > Len(results)
                         THEN Append(arrival, i) ELSE arrival
           /\ pc' = IF collected.raised THEN "raised" ELSE pc
    /\ UNCHANGED <<url_metadata_list, max_images, min_bytes, images>>
    /\ UNCHANGED <<fetch_vars, pool_vars, levis_vars, handler_vars>>

\* lines 1187-1200: sort, deduplicate, cap, number the images, respond
ReplayRespond ==
    /\ pc = "fetching"
    /\ h_handler = "scrape_replay"
    /\ AllSettled(futures)
    /\ LET sorted == SortResults(results, url_order(url_metadata_list))
           numbered == ReplayNumbered(ReplayBuildImages(sorted, <<>>, {}, max_images), h_sku)
       IN  /\ results' = sorted
           /\ images' = numbered
           /\ h_response' = Jsonify([sku |-> h_sku, images |-> numbered, count |-> Len(numbered)])
    /\ pc' = "done"
    /\ h_pc' = "responded"
    /\ UNCHANGED <<url_metadata_list, max_images, min_bytes, futures, arrival>>
    /\ UNCHANGED <<h_handler, h_sku, h_max_images, h_input>>
    /\ UNCHANGED <<fetch_vars, pool_vars, levis_vars>>

ReplayInit == Idle

ReplayNext ==
    \/ \E sku \in ReplaySkus, cap \in Caps, n \in 1..MaxReplayCands : ReplayCall(sku, cap, n)
    \/ \E i \in 1..MaxReplayCands, got \in ReplayGot : ReplayComplete(i, got)
    \/ ReplayRespond

ReplaySpec == ReplayInit /\ [][ReplayNext]_vars

\* the fetch got a 200 image response of exactly 26238 bytes, or one whose
\* digest is in the placeholder hash set
ReplayPlaceholder(g) ==
    /\ g.kind = "response"
    /\ g.resp.status_code = 200
    /\ ContainsImageAnyCase(IF "Content-Type" \in DOMAIN g.resp.headers
                            THEN g.resp.headers["Content-Type"] ELSE <<>>)
    /\ \/ g.resp.content.len = 26238
       \/ md5_hash(g.resp.content) \in WATERMARK_HASHES

ReplayResponded == h_pc = "responded" /\ h_handler = "scrape_replay"

\* C15: a candidate whose fetch got a 200 image response of exactly 26238
\* bytes, or one whose hash is in the placeholder hash set, is reported not
\* valid by the replay validator and is not among the images of the
\* scrape_replay response.
C15_PlaceholderFiltered ==
    \A i \in DOMAIN futures :
        (futures[i].state = "done" /\ ReplayPlaceholder(futures[i].got)) =>
            /\ ~futures[i].result.is_valid
            /\ ReplayResponded =>
                \A a \in DOMAIN h_response.body.images :
                    h_response.body.images[a].url # url_metadata_list[i].url

\* C15 witness: the response lists an image although one candidate got a
\* body of 26238 bytes and another the body with the placeholder hash.
C15_Witness ==
    /\ ReplayResponded
    /\ h_response.body.count >= 1
    /\ \E i, j \in DOMAIN futures :
        /\ futures[i].got.kind = "response"
        /\ futures[i].got.resp.content.len = 26238
        /\ futures[j].got.kind = "response"
        /\ futures[j].got.resp.content = WatermarkBody

(***************************************************************************)
(* scrapers/scrape_levis.py, find_working_combo: every (prefix, middle)     *)
(* combination is probed on a pool of MAX_WORKERS threads; the loop over    *)
(* as_completed returns at the first probe that is yielded valid.  The      *)
(* return statement is inside the with block of the executor, whose exit    *)
(* waits for the probes still queued or running before the caller gets the  *)
(* value.                                                                   *)
(***************************************************************************)
MIN_VALID_BYTES == 10000
MAX_WORKERS == 8
PREFIXES == <<"MB_", "MT_", "WB_", "WT_", "UB_", "UT_", "A_", "">>
MIDDLES == <<"GLO_CM_", "GLO_CL_", "LSE_CL_", "LSE_CM_">>

\* number of PREFIXES explored (the last ones, the empty prefix among them)
MaxPrefixes == 2
\* number of MIDDLES explored (the first ones)
MaxMiddles == 2

PrefixesTried == SubSeq(PREFIXES, Len(PREFIXES) - MaxPrefixes + 1, Len(PREFIXES))
MiddlesTried == SubSeq(MIDDLES, 1, MaxMiddles)

\* None, where the other values are of type str: it equals no prefix and no
\* middle, the empty string included
NoCombo == "None"

\* the sku codes convert_sku hands over
LevisSkuCodes == {"000LO-0033", "A0001-0000"}

\* f"{BASE_URL}/{prefix}{sku_code}_{middle}DA{QS}"
LevisUrl(prefix, sku_code, middle) == <<prefix, sku_code, middle, "DA">>

\* lines 70-76: for prefix in PREFIXES: for middle in MIDDLES: ... idx += 1
combos_to_test(sku_code) ==
    [k \in 1..(Len(PrefixesTried) * Len(MiddlesTried)) |->
        LET prefix == PrefixesTried[((k - 1) \div Len(MiddlesTried)) + 1]
            middle == MiddlesTried[((k - 1) % Len(MiddlesTried)) + 1]
        IN  [url |-> LevisUrl(prefix, sku_code, middle), idx |-> k - 1,
             prefix |-> prefix, middle |-> middle]]

\* what requests.get may produce for a probe
LevisGot ==
    {GotException,
     GotResponse(Response(404, ContentTypeHeader(CT_TEXT_HTML), Body(0, 512))),
     GotResponse(Response(200, ContentTypeHeader(CT_IMAGE_JPEG), Body(0, MIN_VALID_BYTES))),
     GotResponse(Response(200, ContentTypeHeader(CT_IMAGE_JPEG), Body(1, MIN_VALID_BYTES + 1)))}

\* check_url_parallel(args), given what requests.get produced
check_url_parallel(args, got) ==
    LET url == args[1]
        idx == args[2]
    IN  IF got.kind = "exception" THEN <<idx, url, FALSE>>
        ELSE IF got.resp.status_code = 200 /\ BodyLen(got.resp.content) > MIN_VALID_BYTES
             THEN <<idx, url, TRUE>>
             ELSE <<idx, url, FALSE>>

LevisRunning == {i \in DOMAIN l_futures : l_futures[i].state = "running"}
LevisQueued == {i \in DOMAIN l_futures : l_futures[i].state = "queued"}

\* lines 79-83: every combination is submitted
LevisCall(sku_code) ==
    /\ l_pc = "idle"
    /\ l_pc' = "probing"
    /\ l_futures' = [k \in DOMAIN combos_to_test(sku_code) |->
                        [combo |-> combos_to_test(sku_code)[k], state |-> "queued",
                         is_valid |-> FALSE]]
    /\ l_result' = None
    /\ l_sku_code' = sku_code
    /\ UNCHANGED <<l_max_images, l_valid_images, l_response>>
    /\ UNCHANGED other_than_levis

\* a worker thread takes up the oldest queued probe
LevisStart ==
    /\ l_pc \in {"probing", "draining"}
    /\ LevisQueued # {}
    /\ Cardinality(LevisRunning) < MAX_WORKERS
    /\ LET i == CHOOSE q \in LevisQueued : \A o \in LevisQueued : q <= o
       IN  l_futures' = [l_futures EXCEPT ![i].state = "running"]
    /\ UNCHANGED <<l_pc, l_result, l_sku_code, l_max_images, l_valid_images, l_response>>
    /\ UNCHANGED other_than_levis

\* lines 84-88: the probe i finishes and as_completed yields it; the first
\* valid one yielded is what the function returns, and the executor's exit
\* then waits for the other probes
LevisComplete(i, got) ==
    /\ l_pc = "probing"
    /\ i \in LevisRunning
    /\ LET combo == l_futures[i].combo
           is_valid == check_url_parallel(<<combo.url, combo.idx>>, got)[3]
       IN  /\ l_futures' = [l_futures EXCEPT ![i].state = "done", ![i].is_valid = is_valid]
           /\ IF is_valid
              THEN /\ l_result' = <<combo.prefix, combo.middle>>
                   /\ l_pc' = IF LevisRunning \cup LevisQueued = {i} THEN "returned" ELSE "draining"
              ELSE /\ l_result' = IF LevisRunning \cup LevisQueued = {i}
                                  THEN <<NoCombo, NoCombo>> ELSE l_result
                   /\ l_pc' = IF LevisRunning \cup LevisQueued = {i} THEN "returned" ELSE l_pc
    /\ UNCHANGED <<l_sku_code, l_max_images, l_valid_images, l_response>>
    /\ UNCHANGED other_than_levis

\* ThreadPoolExecutor.__exit__: a probe finishes after the return value is
\* fixed; nothing reads its result
LevisDrain(i, got) ==
    /\ l_pc = "draining"
    /\ i \in LevisRunning
    /\ LET combo == l_futures[i].combo
           is_valid == check_url_parallel(<<combo.url, combo.idx>>, got)[3]
       IN  l_futures' = [l_futures EXCEPT ![i].state = "done", ![i].is_valid = is_valid]
    /\ l_pc' = IF LevisRunning \cup LevisQueued = {i} THEN "returned" ELSE l_pc
    /\ UNCHANGED <<l_result, l_sku_code, l_max_images, l_valid_images, l_response>>
    /\ UNCHANGED other_than_levis

(***************************************************************************)
(* scrape_levis after find_working_combo: the seven views of the working    *)
(* combination are checked on the pool, the views of the other middles one  *)
(* by one while fewer than max_images images are at hand, then valid_images *)
(* is sorted and the response built.                                        *)
(***************************************************************************)
VIEWS == <<"DA", "FV", "BV", "SV", "D1", "D2", "D3">>
\* valid_images.append((100 + len(valid_images), url))
ALT_INDEX_BASE == 100
\* if len(valid_images) >= max_images + 2: break
ALT_EXTRA == 2

INVALID_LEVIS_SKU == "Invalid SKU format"
NO_IMAGES_FOUND == "No images found for "

\* f"{BASE_URL}/{prefix}{sku_code}_{middle}{view}{QS}"
LevisViewUrl(prefix, sku_code, middle, view) == <<prefix, sku_code, middle, view>>

\* the views the image host may hold an image for
ViewsHeld == {"DA", "BV"}

\* the values of max_images explored: one more than for the engine, so that
\* two images of the working combination leave room for an alternate one
LevisCaps == (0 - 1)..(MaxCap + 1)

\* the URLs of a request the image host may hold an image for
LevisUrlsHeld(prefix, sku_code) ==
    {LevisViewUrl(prefix, sku_code, MiddlesTried[m], view) :
        m \in DOMAIN MiddlesTried, view \in ViewsHeld}

\* what requests.get produces for a URL when the host holds images for held
LevisBackend(held, url) ==
    IF url \in held
    THEN GotResponse(Response(200, ContentTypeHeader(CT_IMAGE_JPEG), Body(1, MIN_VALID_BYTES + 1)))
    ELSE GotResponse(Response(404, ContentTypeHeader(CT_TEXT_HTML), Body(0, 512)))

\* check_url(url), given what requests.get produced
check_url(url, got) ==
    IF got.kind = "exception" THEN FALSE
    ELSE got.resp.status_code = 200 /\ BodyLen(got.resp.content) > MIN_VALID_BYTES

\* lines 116-119: urls_to_check
levis_urls_to_check(prefix, sku_code, middle) ==
    [k \in DOMAIN VIEWS |-> <<LevisViewUrl(prefix, sku_code, middle, VIEWS[k]), k - 1>>]

\* lines 122-128: the view checks, their futures yielded in the order yielded
LevisPrimary(checks, held, yielded) ==
    LET outs == [k \in DOMAIN checks |-> check_url_parallel(checks[k], LevisBackend(held, checks[k][1]))]
        appended == SelectSeq(yielded, LAMBDA k : outs[k][3])
    IN  [a \in DOMAIN appended |-> <<outs[appended[a]][1], outs[appended[a]][2]>>]

\* the (alt_middle, view) pairs of lines 132-135, in loop order
AltPairs(middle) ==
    LET alts == SelectSeq(MIDDLES, LAMBDA m : m # middle)
    IN  [k \in 1..(Len(alts) * Len(VIEWS)) |->
            <<alts[((k - 1) \div Len(VIEWS)) + 1], VIEWS[((k - 1) % Len(VIEWS)) + 1]>>]

\* the alternate image appended with the index of a primary image
LevisAltEntryLow(valid_images, url) == <<Len(valid_images), url>>

\* valid_images.append((100 + len(valid_images), url))
LevisAltEntry(valid_images, url) == <<ALT_INDEX_BASE + Len(valid_images), url>>

\* lines 132-143: the loops over the alternate middles and the views; both
\* loops are left once max_images + 2 images are at hand
RECURSIVE LevisAlternates(_, _, _, _, _, _)
LevisAlternates(pairs, valid_images, cap, held, prefix, sku_code) ==
    IF pairs = <<>> THEN valid_images
    ELSE LET url == LevisViewUrl(prefix, sku_code, Head(pairs)[1], Head(pairs)[2]) IN
         IF check_url(url, LevisBackend(held, url))
         THEN LET grown == Append(valid_images, LevisAltEntry(valid_images, url)) IN
              IF Len(grown) >= cap + ALT_EXTRA THEN grown
              ELSE LevisAlternates(Tail(pairs), grown, cap, held, prefix, sku_code)
         ELSE LevisAlternates(Tail(pairs), valid_images, cap, held, prefix, sku_code)

\* valid_images.sort(key=lambda x: x[0]): ascending by index, stable
RECURSIVE LevisSort(_)
LevisSort(vs) ==
    IF vs = <<>> THEN <<>>
    ELSE LET last == vs[Len(vs)]
             init == LevisSort(SubSeq(vs, 1, Len(vs) - 1))
         IN  SelectSeq(init, LAMBDA v : v[1] <= last[1]) \o <<last>>
                \o SelectSeq(init, LAMBDA v : v[1] > last[1])

\* lines 147-155: the loop over the sorted valid_images
RECURSIVE LevisBuildImages(_, _, _, _)
LevisBuildImages(vs, imgs, seen, cap) ==
    IF vs = <<>> THEN imgs
    ELSE LET url == Head(vs)[2] IN
         IF url \notin seen /\ Len(imgs) < cap
         THEN LevisBuildImages(Tail(vs), Append(imgs, [url |-> url, index |-> Len(imgs) + 1]),
                               seen \cup {url}, cap)
         ELSE LevisBuildImages(Tail(vs), imgs, seen, cap)

\* lines 115-143: valid_images as it stands before the sort
levis_valid_images(sku_code, cap, combo, held, yielded) ==
    LET prefix == combo[1]
        middle == combo[2]
        primary == LevisPrimary(levis_urls_to_check(prefix, sku_code, middle), held, yielded)
    IN  IF Len(primary) < cap
        THEN LevisAlternates(AltPairs(middle), primary, cap, held, prefix, sku_code)
        ELSE primary

\* the request's sku is named by the code convert_sku makes of it
LevisError(sku_code, message) ==
    [sku |-> sku_code, images |-> <<>>, count |-> 0, error |-> message]

\* lines 106-107: if not sku_code
LevisReject(sku_code, cap) ==
    /\ l_pc = "idle"
    /\ sku_code = ""
    /\ l_pc' = "responded"
    /\ l_sku_code' = sku_code
    /\ l_max_images' = cap
    /\ l_response' = LevisError(sku_code, INVALID_LEVIS_SKU)
    /\ UNCHANGED <<l_futures, l_result, l_valid_images>>
    /\ UNCHANGED other_than_levis

\* find_working_combo has returned this combination, or (None, None)
LevisFound(sku_code, combo) ==
    /\ l_pc = "idle"
    /\ sku_code # ""
    /\ l_pc' = "returned"
    /\ l_sku_code' = sku_code
    /\ l_result' = combo
    /\ UNCHANGED <<l_futures, l_max_images, l_valid_images, l_response>>
    /\ UNCHANGED other_than_levis

\* the test taken as 'if not prefix'
LevisNoPrefixFalsy(prefix) == prefix = NoCombo \/ prefix = ""

\* if prefix is None
LevisNoPrefix(prefix) == prefix = NoCombo

\* lines 112-113: the error result of a sku no combination works for
LevisNotFound(sku_code) == LevisError(sku_code, <<NO_IMAGES_FOUND, sku_code>>)

\* lines 110-161: from the return of find_working_combo to the result
LevisRespond(cap, held, yielded) ==
    /\ l_pc = "returned"
    /\ l_pc' = "responded"
    /\ l_max_images' = cap
    /\ IF LevisNoPrefix(l_result[1])
       THEN /\ l_valid_images' = <<>>
            /\ l_response' = LevisNotFound(l_sku_code)
       ELSE LET valid_images == levis_valid_images(l_sku_code, cap, l_result, held, yielded)
                imgs == LevisBuildImages(LevisSort(valid_images), <<>>, {}, cap)
            IN  /\ l_valid_images' = valid_images
                /\ l_response' = [sku |-> l_sku_code, images |-> imgs, count |-> Len(imgs)]
    /\ UNCHANGED <<l_futures, l_result, l_sku_code>>
    /\ UNCHANGED other_than_levis

\* the orders in which the futures of the view checks are yielded
ViewOrders == {[k \in DOMAIN VIEWS |-> k], Reverse([k \in DOMAIN VIEWS |-> k])}

LevisInit == Idle

\* the URLs of the request at hand the image host may hold an image for
LevisUrlsHeldNow ==
    IF l_pc = "returned" /\ ~LevisNoPrefix(l_result[1])
    THEN LevisUrlsHeld(l_result[1], l_sku_code) ELSE {}

\* the image host holds every view it may hold, or none
LevisHeldAllOrNone == {{}, LevisUrlsHeldNow}

LevisNext ==
    \/ \E sku_code \in LevisSkuCodes : LevisCall(sku_code)
    \/ LevisStart
    \/ \E i \in DOMAIN l_futures, got \in LevisGot : LevisComplete(i, got)
    \/ \E i \in DOMAIN l_futures, got \in LevisGot : LevisDrain(i, got)
    \/ \E cap \in LevisCaps : LevisReject("", cap)
    \/ \E cap \in LevisCaps, held \in LevisHeldAllOrNone :
            LevisRespond(cap, held, Reverse([k \in DOMAIN VIEWS |-> k]))

LevisSpec == LevisInit /\ [][LevisNext]_vars

LevisReturned == l_pc = "returned"

LevisValid == {i \in DOMAIN l_futures : l_futures[i].state = "done" /\ l_futures[i].is_valid}

\* C17, as stated: find_working_combo returns the (prefix, middle) of the
\* valid combination with the lowest submission index, whatever the order in
\* which the probes complete.
C17_LowestIndexCombo ==
    (LevisReturned /\ LevisValid # {}) =>
        LET lowest == CHOOSE i \in LevisValid : \A j \in LevisValid : i <= j
        IN  l_result = <<l_futures[lowest].combo.prefix, l_futures[lowest].combo.middle>>

\* What does hold: find_working_combo returns the (prefix, middle) of some
\* valid combination, and (None, None) exactly when no combination is valid.
C17_SomeValidCombo ==
    LevisReturned =>
        IF LevisValid = {} THEN l_result = <<NoCombo, NoCombo>>
        ELSE \E i \in LevisValid :
                l_result = <<l_futures[i].combo.prefix, l_futures[i].combo.middle>>

(***************************************************************************)
(* The brand handlers: how scrape_boss, scrape_maje, scrape_mango and       *)
(* scrape_coach turn a request and the validated images into a response.    *)
(* max_images is an int.  A handler's validation step is summarised by what *)
(* it can hand over: for scrape_boss and scrape_maje the list returned by   *)
(* validate_urls_parallel (entries of candidates of url_list, in list       *)
(* order), for scrape_mango and scrape_coach the sorted list of valid       *)
(* results.                                                                 *)
(***************************************************************************)
\* longest list of validated images handed to a handler
MaxShots == 2

UPPERCASE ==
    <<"A", "B", "C", "D", "E", "F", "G", "H", "I", "J", "K", "L", "M",
      "N", "O", "P", "Q", "R", "S", "T", "U", "V", "W", "X", "Y", "Z">>
LOWERCASE ==
    <<"a", "b", "c", "d", "e", "f", "g", "h", "i", "j", "k", "l", "m",
      "n", "o", "p", "q", "r", "s", "t", "u", "v", "w", "x", "y", "z">>
LETTERS == {UPPERCASE[i] : i \in DOMAIN UPPERCASE} \cup {LOWERCASE[i] : i \in DOMAIN LOWERCASE}
DIGIT_CHARS == {DIGITS[i] : i \in DOMAIN DIGITS}

\* str.lower() on ASCII text
AsciiLower(s) ==
    [i \in DOMAIN s |->
        IF \E k \in DOMAIN UPPERCASE : UPPERCASE[k] = s[i]
        THEN LOWERCASE[CHOOSE k \in DOMAIN UPPERCASE : UPPERCASE[k] = s[i]]
        ELSE s[i]]

\* str.startswith
StartsWith(s, p) == Len(s) >= Len(p) /\ SubSeq(s, 1, Len(p)) = p

RECURSIVE LStrip(_)
LStrip(s) == IF s # <<>> /\ Head(s) = " " THEN LStrip(Tail(s)) ELSE s

RECURSIVE RStrip(_)
RStrip(s) == IF s # <<>> /\ s[Len(s)] = " " THEN RStrip(SubSeq(s, 1, Len(s) - 1)) ELSE s

\* str.strip()
Strip(s) == RStrip(LStrip(s))

\* str.replace(sub, with)
RECURSIVE StrReplace(_, _, _)
StrReplace(s, sub, with) ==
    IF s = <<>> THEN <<>>
    ELSE IF StartsWith(s, sub)
         THEN with \o StrReplace(SubSeq(s, Len(sub) + 1, Len(s)), sub, with)
         ELSE <<Head(s)>> \o StrReplace(Tail(s), sub, with)

RECURSIVE SplitAcc(_, _, _)
SplitAcc(s, cur, toks) ==
    IF s = <<>> THEN (IF cur = <<>> THEN toks ELSE Append(toks, cur))
    ELSE IF Head(s) = " "
         THEN SplitAcc(Tail(s), <<>>, IF cur = <<>> THEN toks ELSE Append(toks, cur))
         ELSE SplitAcc(Tail(s), Append(cur, Head(s)), toks)

\* str.split(): on runs of blanks, no empty parts
StrSplit(s) == SplitAcc(s, <<>>, <<>>)

RECURSIVE SplitOnAcc(_, _, _, _)
SplitOnAcc(s, sep, cur, toks) ==
    IF s = <<>> THEN Append(toks, cur)
    ELSE IF Head(s) = sep
         THEN SplitOnAcc(Tail(s), sep, <<>>, Append(toks, cur))
         ELSE SplitOnAcc(Tail(s), sep, Append(cur, Head(s)), toks)

\* str.split(sep): empty parts kept
StrSplitOn(s, sep) == SplitOnAcc(s, sep, <<>>, <<>>)

\* s[:k]
SliceTo(s, k) ==
    IF k >= 0 THEN SubSeq(s, 1, IF k <= Len(s) THEN k ELSE Len(s))
    ELSE SubSeq(s, 1, IF Len(s) + k >= 0 THEN Len(s) + k ELSE 0)

\* the sublists of a list with at most maxlen entries, order kept
RECURSIVE PicksFrom(_, _, _)
PicksFrom(lo, n, k) ==
    IF k = 0 THEN {<<>>}
    ELSE UNION {{<<i>> \o t : t \in PicksFrom(i + 1, n, k - 1)} : i \in lo..n}

\* the strictly increasing k-tuples of positions of a list of n entries
Picks(n, k) == PicksFrom(1, n, k)
SubLists(list, maxlen) ==
    UNION {{[a \in 1..k |-> list[f[a]]] : f \in Picks(Len(list), k)} : k \in 0..maxlen}

\* what validate_urls_parallel(url_list, max_images=cap) can return
EngineOutputs(url_list, cap) ==
    LET room == IF cap <= 0 THEN 0 ELSE IF cap <= MaxShots THEN cap ELSE MaxShots
    IN  {[a \in DOMAIN sub |-> MakeImage(sub[a])] : sub \in SubLists(url_list, room)}

\* jsonify(...), status
JsonifyStatus(body, status) == [status |-> status, body |-> body]

SKU_REQUIRED == "SKU required"
INVALID_SKU_FORMAT == "Invalid SKU format: "

(***************************************************************************)
(* scrape_boss                                                              *)
(***************************************************************************)
HB == <<"H", "B">>
BOSS_PREFIXES == <<"hbeu", "hbna">>
SUFFIX_ORDER ==
    <<<<"2", "0", "0">>, <<"2", "4", "5">>, <<"3", "0", "0">>, <<"3", "4", "0">>,
      <<"2", "4", "0">>, <<"2", "1", "0">>, <<"2", "0", "1">>, <<"2", "3", "0">>,
      <<"2", "2", "0">>, <<"2", "5", "0">>, <<"2", "6", "0">>, <<"2", "7", "0">>,
      <<"2", "8", "0">>, <<"1", "0", "0">>, <<"1", "1", "0">>, <<"1", "2", "0">>,
      <<"1", "3", "0">>, <<"1", "4", "0">>, <<"1", "5", "0">>, <<"3", "5", "0">>,
      <<"3", "6", "0">>>>
\* validate_urls_parallel(url_list, max_images=max_images + 5)
BOSS_EXTRA == 5

BossSkus == {<<>>, <<"H", "B", "5", "0">>, <<"5", "0", " ", "X", " ", "0", "1", " ">>}

\* lines 140-145: parts, num, color, formatted_sku
BossParse(sku) ==
    LET parts == StrSplit(Strip(StrReplace(sku, HB, <<>>)))
    IN  IF Len(parts) < 2 THEN [ok |-> FALSE]
        ELSE [ok |-> TRUE, num |-> parts[1], color |-> parts[Len(parts)],
              formatted_sku |-> HB \o parts[1] \o <<" ">> \o parts[Len(parts)]]

\* the suffixes whose candidates are explored, in the order of SUFFIX_ORDER:
\* model shots before and after the product shots, and the six product shots
BossSuffixesTried ==
    SelectSeq(SUFFIX_ORDER,
              LAMBDA suf : suf \in {<<"2", "0", "0">>, <<"2", "4", "5">>, <<"3", "5", "0">>}
                           \/ StartsWith(suf, <<"1">>))

\* lines 152-157: for pref in PREFIXES: for suf in SUFFIX_ORDER
BossUrlList(num, color) ==
    [k \in 1..(Len(BOSS_PREFIXES) * Len(BossSuffixesTried)) |->
        LET pref == BOSS_PREFIXES[((k - 1) \div Len(BossSuffixesTried)) + 1]
            suf == BossSuffixesTried[((k - 1) % Len(BossSuffixesTried)) + 1]
        IN  [url |-> <<pref, num, color, suf>>, metadata |-> [suffix |-> suf, prefix |-> pref]]]

\* img.get("suffix", "").startswith("1")
IsProductShot(img) ==
    StartsWith(IF "suffix" \in DOMAIN img THEN img.suffix ELSE <<>>, <<"1">>)

\* the images left in the order the engine returned them
BossReorderNone(imgs, cap) == SliceTo(imgs, cap)

\* lines 163-165: model shots first, product shots last, then [:max_images]
BossReorder(imgs, cap) ==
    LET model_shots == SelectSeq(imgs, LAMBDA img : ~IsProductShot(img))
        product_shots == SelectSeq(imgs, LAMBDA img : IsProductShot(img))
    IN  SliceTo(model_shots \o product_shots, cap)

\* the numbering started at 0
NumberedFromZero(imgs, stem) ==
    [a \in DOMAIN imgs |->
        LET idx == a - 1 IN
        DictUpdate(imgs[a], [index |-> idx, filename |-> stem \o <<"-">> \o Decimal(idx)])]

\* for idx, img in enumerate(images): img["index"] = idx + 1;
\* img["filename"] = f"{stem}-{idx + 1}"
Numbered(imgs, stem) ==
    [a \in DOMAIN imgs |->
        LET idx == a - 1 IN
        DictUpdate(imgs[a], [index |-> idx + 1, filename |-> stem \o <<"-">> \o Decimal(idx + 1)])]

\* the cap handed to the engine without the five extra images
BossEngineCapNoExtra(cap) == cap

\* validate_urls_parallel(url_list, max_images=max_images + 5)
BossEngineCap(cap) == cap + BOSS_EXTRA

\* what the validation step of scrape_boss can hand over
BossOutputs(raw, cap) ==
    LET sku == Strip(raw)
        p == BossParse(sku)
    IN  IF sku = <<>> \/ ~p.ok THEN {<<>>}
        ELSE EngineOutputs(BossUrlList(p.num, p.color), BossEngineCap(cap))

\* scrape_boss, given the list validate_urls_parallel returned
scrape_boss(raw, cap, out) ==
    LET sku == Strip(raw)
        p == BossParse(sku)
    IN  IF sku = <<>> THEN JsonifyStatus([error |-> SKU_REQUIRED], 400)
        ELSE IF ~p.ok THEN JsonifyStatus([error |-> <<INVALID_SKU_FORMAT, sku>>], 400)
        ELSE LET imgs == Numbered(BossReorder(out, cap), p.formatted_sku)
             IN  Jsonify([sku |-> sku, formatted_sku |-> p.formatted_sku,
                          images |-> imgs, count |-> Len(imgs)])

BossRespond(raw, cap, out) ==
    /\ h_pc = "idle"
    /\ h_pc' = "responded"
    /\ h_handler' = "scrape_boss"
    /\ h_sku' = Strip(raw)
    /\ h_max_images' = cap
    /\ h_input' = out
    /\ h_response' = scrape_boss(raw, cap, out)
    /\ UNCHANGED other_than_handler

(***************************************************************************)
(* scrape_maje                                                              *)
(***************************************************************************)
MA == <<"M", "A">>
\* for i in range(1, 6)
MAJE_MODEL_SHOTS == 5

MajeSkus == {<<>>, <<" ">>, <<"M", "A", "7">>, <<"M", "F", "P", "7">>}

\* lines 190-201: five model shots, then the packshot
MajeUrlList(sku) ==
    LET base_code == StrReplace(sku, MA, <<>>) IN
    [k \in 1..(MAJE_MODEL_SHOTS + 1) |->
        IF k <= MAJE_MODEL_SHOTS
        THEN [url |-> <<"hi-res", base_code, k>>, metadata |-> [type |-> "model", position |-> k]]
        ELSE [url |-> <<"packshot", base_code>>,
              metadata |-> [type |-> "packshot", position |-> MAJE_MODEL_SHOTS + 1]]]

MajeOutputs(raw, cap) ==
    IF Strip(raw) = <<>> THEN {<<>>} ELSE EngineOutputs(MajeUrlList(Strip(raw)), cap)

\* the body with an error field when there is no image
MajeBodyWithError(sku, imgs) ==
    IF imgs = <<>>
    THEN [sku |-> sku, formatted_sku |-> sku, images |-> imgs, count |-> Len(imgs),
          error |-> "No images found"]
    ELSE [sku |-> sku, formatted_sku |-> sku, images |-> imgs, count |-> Len(imgs)]

\* line 209: {"sku": sku, "formatted_sku": sku, "images": images, "count": len(images)}
MajeBody(sku, imgs) ==
    [sku |-> sku, formatted_sku |-> sku, images |-> imgs, count |-> Len(imgs)]

\* scrape_maje, given the list validate_urls_parallel returned
scrape_maje(raw, cap, out) ==
    LET sku == Strip(raw)
    IN  IF sku = <<>> THEN JsonifyStatus([error |-> SKU_REQUIRED], 400)
        ELSE Jsonify(MajeBody(sku, Numbered(out, sku)))

MajeRespond(raw, cap, out) ==
    /\ h_pc = "idle"
    /\ h_pc' = "responded"
    /\ h_handler' = "scrape_maje"
    /\ h_sku' = Strip(raw)
    /\ h_max_images' = cap
    /\ h_input' = out
    /\ h_response' = scrape_maje(raw, cap, out)
    /\ UNCHANGED other_than_handler

(***************************************************************************)
(* scrape_mango                                                             *)
(***************************************************************************)
MNG == <<"m", "n", "g">>

MangoSkus == {<<>>, <<"M", "N", "G", "7">>, <<"m", "n", "g", "4", "2", "-", "T", "C">>}

\* re.match(r"MNG(\d+)-([A-Z0-9]+)$", sku, re.I), and their_code
MangoParse(sku) ==
    LET parts == StrSplitOn(sku, "-")
    IN  IF /\ Len(parts) = 2
           /\ StartsWith(AsciiLower(parts[1]), MNG)
           /\ Len(parts[1]) > Len(MNG)
           /\ \A i \in (Len(MNG) + 1)..Len(parts[1]) : parts[1][i] \in DIGIT_CHARS
           /\ parts[2] # <<>>
           /\ \A i \in DOMAIN parts[2] : parts[2][i] \in LETTERS \cup DIGIT_CHARS
        THEN [ok |-> TRUE,
              their_code |-> SubSeq(parts[1], Len(MNG) + 1, Len(parts[1])) \o <<"_">> \o parts[2]]
        ELSE [ok |-> FALSE]

\* lines 238-247: Main, outfit 1-4, R, D1, B, D2-D12
MANGO_VIEWS ==
    <<"main", "outfit_01", "outfit_02", "outfit_03", "outfit_04", "R", "D1", "B",
      "D2", "D3", "D4", "D5", "D6", "D7", "D8", "D9", "D10", "D11", "D12">>

\* the views whose candidates are explored: those before the additional details
MangoViewsTried == SelectSeq(MANGO_VIEWS, LAMBDA v : v \in {"main", "outfit_01", "outfit_02",
                                                            "outfit_03", "outfit_04", "R", "D1", "B"})

candidate_urls(their_code) == [k \in DOMAIN MangoViewsTried |-> <<their_code, MangoViewsTried[k]>>]

\* the sorted lists of valid results the download step of scrape_mango can
\* leave: entries of candidate_urls in order, each with its base64 text and
\* hash; equal bodies share a number
MangoResults(raw, cap) ==
    LET sku == Strip(raw)
        p == MangoParse(sku)
    IN  IF sku = <<>> \/ ~p.ok THEN {<<>>}
        ELSE LET urls == candidate_urls(p.their_code) IN
             UNION {{[a \in 1..k |->
                        [url |-> urls[f[a]], is_valid |-> TRUE, b64 |-> <<"base64", h[a]>>,
                         hash |-> sha1_hash(Body(h[a], MIN_BYTES + 1)), idx |-> f[a] - 1]] :
                     f \in Picks(Len(urls), k),
                     h \in {g \in [1..k -> 1..k] : FirstAppearanceOrder(g)}} :
                    k \in 0..MaxShots}

\* lines 293-304: the loop over the sorted results
RECURSIVE MangoBuildImages(_, _, _, _, _)
MangoBuildImages(rs, imgs, seen_hashes, cap, sku) ==
    IF rs = <<>> THEN imgs
    ELSE IF Len(imgs) >= cap THEN imgs
    ELSE LET r == Head(rs) IN
         IF r.hash # None /\ r.hash \notin seen_hashes
         THEN MangoBuildImages(Tail(rs),
                               Append(imgs, [url |-> r.url, base64 |-> r.b64,
                                             index |-> Len(imgs) + 1,
                                             filename |-> sku \o <<"-">> \o Decimal(Len(imgs) + 1)]),
                               seen_hashes \cup {r.hash}, cap, sku)
         ELSE MangoBuildImages(Tail(rs), imgs, seen_hashes, cap, sku)

\* scrape_mango, given the sorted valid results
scrape_mango(raw, cap, rs) ==
    LET sku == Strip(raw)
        p == MangoParse(sku)
    IN  IF sku = <<>> THEN JsonifyStatus([error |-> SKU_REQUIRED], 400)
        ELSE IF ~p.ok THEN JsonifyStatus([error |-> <<INVALID_SKU_FORMAT, sku>>], 400)
        ELSE LET imgs == MangoBuildImages(rs, <<>>, {}, cap, sku)
             IN  Jsonify([sku |-> sku, formatted_sku |-> sku, their_code |-> p.their_code,
                          images |-> imgs, count |-> Len(imgs),
                          note |-> "Images returned as base64"])

MangoRespond(raw, cap, rs) ==
    /\ h_pc = "idle"
    /\ h_pc' = "responded"
    /\ h_handler' = "scrape_mango"
    /\ h_sku' = Strip(raw)
    /\ h_max_images' = cap
    /\ h_input' = rs
    /\ h_response' = scrape_mango(raw, cap, rs)
    /\ UNCHANGED other_than_handler

(***************************************************************************)
(* scrapers/scrape_coach.py and its endpoint                                *)
(***************************************************************************)
CH == <<"C", "H">>
COACH_SUFFIXES == <<"a0", "a1", "a2", "a3", "a4", "a5", "a6", "a7", "a8", "a9", "a10">>

CoachSkus == {<<>>, <<"C", "H", "C", "7", "-", "B", "4", "-", "M">>, <<"C", "H", "X", "9">>}

\* convert_sku of scrape_coach.py
coach_convert_sku(sku) ==
    LET lowered == AsciiLower(StrReplace(sku, CH, <<>>))
        parts == StrSplitOn(lowered, "-")
    IN  IF Len(parts) >= 3 THEN parts[1] \o <<"_">> \o parts[2] \o parts[3]
        ELSE AsciiLower(lowered)

\* lines 57-60: urls_to_check
urls_to_check(code) == [k \in DOMAIN COACH_SUFFIXES |-> <<<<code, COACH_SUFFIXES[k]>>, k - 1>>]

\* the sorted lists valid_images the check step of scrape_coach can leave
CoachValidImages(raw) ==
    IF Strip(raw) = <<>> THEN {<<>>}
    ELSE LET checks == urls_to_check(coach_convert_sku(Strip(raw))) IN
         {[a \in DOMAIN sub |-> <<sub[a][2], sub[a][1]>>] : sub \in SubLists(checks, MaxShots)}

\* lines 74-79: for _, url in valid_images[:max_images]
RECURSIVE CoachBuildImages(_, _)
CoachBuildImages(vs, imgs) ==
    IF vs = <<>> THEN imgs
    ELSE CoachBuildImages(Tail(vs), Append(imgs, [url |-> Head(vs)[2], index |-> Len(imgs) + 1]))

\* scrape_coach_endpoint and scrape_coach, given the sorted valid_images
scrape_coach(raw, cap, valid_images) ==
    LET sku == Strip(raw)
    IN  IF sku = <<>> THEN JsonifyStatus([error |-> SKU_REQUIRED], 400)
        ELSE LET imgs == CoachBuildImages(SliceTo(valid_images, cap), <<>>)
             IN  Jsonify([sku |-> sku, images |-> imgs, count |-> Len(imgs)])

CoachRespond(raw, cap, valid_images) ==
    /\ h_pc = "idle"
    /\ h_pc' = "responded"
    /\ h_handler' = "scrape_coach"
    /\ h_sku' = Strip(raw)
    /\ h_max_images' = cap
    /\ h_input' = valid_images
    /\ h_response' = scrape_coach(raw, cap, valid_images)
    /\ UNCHANGED other_than_handler

HandlerInit == Idle

HandlerNext ==
    \/ \E raw \in BossSkus, cap \in Caps : \E out \in BossOutputs(raw, cap) :
            BossRespond(raw, cap, out)
    \/ \E raw \in MajeSkus, cap \in Caps : \E out \in MajeOutputs(raw, cap) :
            MajeRespond(raw, cap, out)
    \/ \E raw \in MangoSkus, cap \in Caps : \E rs \in MangoResults(raw, cap) :
            MangoRespond(raw, cap, rs)
    \/ \E raw \in CoachSkus, cap \in Caps : \E vs \in CoachValidImages(raw) :
            CoachRespond(raw, cap, vs)

HandlerSpec == HandlerInit /\ [][HandlerNext]_vars

(***************************************************************************)
(* Properties of the handlers' responses.                                   *)
(***************************************************************************)
Responded == h_pc = "responded"

\* the request was well-formed: the handler did not answer 400
WellFormed == Responded /\ h_response.status # 400

EndsWith(s, suffix) ==
    Len(s) >= Len(suffix) /\ SubSeq(s, Len(s) - Len(suffix) + 1, Len(s)) = suffix

\* C19: in the response of scrape_boss (after its reordering), scrape_maje
\* and scrape_mango, the i-th image (counting from 1) has index i and a
\* filename ending in "-i", and count is the number of images.
C19_IndexFilenameCount ==
    (WellFormed /\ h_handler \in {"scrape_boss", "scrape_maje", "scrape_mango"}) =>
        LET b == h_response.body IN
        /\ b.count = Len(b.images)
        /\ \A i \in DOMAIN b.images :
            /\ b.images[i].index = i
            /\ EndsWith(b.images[i].filename, <<"-">> \o Decimal(i))

\* C19 witness: scrape_boss answered with two images after moving a model
\* shot in front of a product shot.
C19_Witness ==
    /\ WellFormed
    /\ h_handler = "scrape_boss"
    /\ Len(h_input) = 2
    /\ h_response.body.count = 2
    /\ IsProductShot(h_input[1])
    /\ h_response.body.images[1].url = h_input[2].url
    /\ h_response.body.images[2].index = 2

\* no candidate validated although the request asked for images
NothingValidated ==
    /\ WellFormed
    /\ h_handler \in {"scrape_maje", "scrape_coach"}
    /\ h_max_images >= 1
    /\ h_input = <<>>

MESSAGE_FIELDS == {"error", "reason", "message"}

BossAnswered == WellFormed /\ h_handler = "scrape_boss"

\* the place of the entry with this url in the list the engine returned
PlaceInInput(url) == CHOOSE k \in DOMAIN h_input : h_input[k].url = url

\* C21: in a scrape_boss response no product shot (suffix starting with "1")
\* comes before a model shot, and two images of the same group are in the
\* relative order in which the engine returned them.
C21_ModelShotsFirst ==
    BossAnswered =>
        LET imgs == h_response.body.images IN
        \A a, b \in DOMAIN imgs :
            a < b =>
                /\ ~(IsProductShot(imgs[a]) /\ ~IsProductShot(imgs[b]))
                /\ (IsProductShot(imgs[a]) <=> IsProductShot(imgs[b])) =>
                        PlaceInInput(imgs[a].url) < PlaceInInput(imgs[b].url)

\* C21 witness: the engine returned a product shot before a model shot and
\* the response lists the model shot first, the product shot second.
C21_Witness ==
    /\ BossAnswered
    /\ Len(h_input) = 2
    /\ IsProductShot(h_input[1])
    /\ ~IsProductShot(h_input[2])
    /\ Len(h_response.body.images) = 2
    /\ ~IsProductShot(h_response.body.images[1])
    /\ IsProductShot(h_response.body.images[2])

(***************************************************************************)
(* BossSpec: scrape_boss together with its call of validate_urls_parallel,  *)
(* from the answers of the image host to the response.                      *)
(***************************************************************************)
\* the candidates the image host may hold an image for: those of the first
\* prefix, and the first one of the second prefix
BossMayHold == 1..(Len(BossSuffixesTried) + 1)

\* what s.get produces for the k-th candidate: the host holds images for the
\* candidates of held; when mirrored, the second prefix serves the bytes the
\* first prefix serves for the same suffix
BossBackend(held, mirrored) ==
    [k \in 1..(Len(BOSS_PREFIXES) * Len(BossSuffixesTried)) |->
        IF k \in held
        THEN LET id == IF mirrored /\ k > Len(BossSuffixesTried)
                       THEN k - Len(BossSuffixesTried) ELSE k
             IN  GotResponse(Response(200, ContentTypeHeader(CT_IMAGE_JPEG), Body(id, MIN_BYTES + 1)))
        ELSE GotResponse(Response(404, ContentTypeHeader(CT_TEXT_HTML), Body(0, 512)))]

\* validate_urls_parallel(list, max_images=cap) against this backend, the
\* futures being yielded last-submitted first: the futures, the results as
\* appended, the results as sorted, the returned images
EngineRun(list, cap, backend) ==
    LET args == args_list(list, None, MIN_BYTES)
        outs == [i \in DOMAIN list |-> validate_single_url(args[i], backend[i])]
        yielded == Reverse([i \in DOMAIN list |-> i])
        appended == SelectSeq(yielded, LAMBDA i : outs[i].value.is_valid)
        collected == [a \in DOMAIN appended |-> outs[appended[a]].value]
        sorted == SortResults(collected, url_order(list))
    IN  [futures |-> [i \in DOMAIN list |->
                        [state |-> "done", got |-> backend[i], error |-> FALSE,
                         raised |-> outs[i].raised, result |-> outs[i].value]],
         arrival |-> appended,
         results |-> sorted,
         images |-> BuildImages(sorted, <<>>, {}, cap)]

\* scrape_boss from the request to the response
BossScrape(raw, cap, held, mirrored) ==
    /\ h_pc = "idle"
    /\ pc = "idle"
    /\ LET sku == Strip(raw)
           p == BossParse(sku)
       IN  IF sku = <<>> \/ ~p.ok
           THEN /\ h_input' = <<>>
                /\ h_response' = scrape_boss(raw, cap, <<>>)
                /\ UNCHANGED engine_vars
           ELSE LET url_list == BossUrlList(p.num, p.color)
                    run == EngineRun(url_list, BossEngineCap(cap), BossBackend(held, mirrored))
                IN  /\ pc' = "done"
                    /\ url_metadata_list' = url_list
                    /\ max_images' = BossEngineCap(cap)
                    /\ min_bytes' = MIN_BYTES
                    /\ futures' = run.futures
                    /\ arrival' = run.arrival
                    /\ results' = run.results
                    /\ images' = run.images
                    /\ h_input' = run.images
                    /\ h_response' = scrape_boss(raw, cap, run.images)
    /\ h_pc' = "responded"
    /\ h_handler' = "scrape_boss"
    /\ h_sku' = Strip(raw)
    /\ h_max_images' = cap
    /\ UNCHANGED <<fetch_vars, pool_vars, levis_vars>>

BossInit == Idle

BossNext ==
    \E raw \in BossSkus, cap \in Caps, held \in SUBSET BossMayHold, mirrored \in BOOLEAN :
        BossScrape(raw, cap, held, mirrored)

BossSpec == BossInit /\ [][BossNext]_vars

(***************************************************************************)
(* Which candidates scrape_boss returns.                                    *)
(***************************************************************************)
\* the entries of a list of results whose content no earlier entry has
RECURSIVE FirstOfEachContent(_, _)
FirstOfEachContent(rs, seen) ==
    IF rs = <<>> THEN <<>>
    ELSE IF Head(rs).content \in seen THEN FirstOfEachContent(Tail(rs), seen)
         ELSE <<Head(rs)>> \o FirstOfEachContent(Tail(rs), seen \cup {Head(rs).content})

\* the first n entries of a list, n >= 0
FirstN(s, n) == SubSeq(s, 1, IF n <= Len(s) THEN n ELSE Len(s))

IsProductResult(r) == Head(r.metadata.suffix) = "1"

\* the model shots of a list of results, then its product shots
ModelFirst(rs) ==
    SelectSeq(rs, LAMBDA r : ~IsProductResult(r)) \o SelectSeq(rs, IsProductResult)

\* every valid candidate of the request with distinct content, in list order
BossValidDistinct == FirstOfEachContent(results, {})

\* C22 as stated: the images of a scrape_boss response (max_images >= 0) are
\* the first max_images entries of the model-first reordering of all the
\* valid candidates with distinct content; so a product shot is returned only
\* when fewer than max_images of them are model shots.
C22_FromAllValid ==
    (BossAnswered /\ pc = "done" /\ h_max_images >= 0) =>
        /\ UrlsOf(h_response.body.images)
                = UrlsOf(FirstN(ModelFirst(BossValidDistinct), h_max_images))
        /\ (\E a \in DOMAIN h_response.body.images : IsProductShot(h_response.body.images[a]))
                => Len(SelectSeq(BossValidDistinct, LAMBDA r : ~IsProductResult(r))) < h_max_images

\* C22 amended: the images of a scrape_boss response (max_images >= 0) are
\* the first max_images entries of the model-first reordering of the first
\* max_images + 5 valid candidates with distinct content; so a product shot
\* is returned only when fewer than max_images of those are model shots.
C22_FromFirstValid ==
    (BossAnswered /\ pc = "done" /\ h_max_images >= 0) =>
        LET fetched == FirstN(BossValidDistinct, h_max_images + BOSS_EXTRA) IN
        /\ UrlsOf(h_response.body.images) = UrlsOf(FirstN(ModelFirst(fetched), h_max_images))
        /\ (\E a \in DOMAIN h_response.body.images : IsProductShot(h_response.body.images[a]))
                => Len(SelectSeq(fetched, LAMBDA r : ~IsProductResult(r))) < h_max_images

\* C22 witness: more than max_images + 5 candidates with distinct content are
\* valid, a model shot among those beyond the first max_images + 5, and the
\* response holds a product shot.
C22_Witness ==
    /\ BossAnswered
    /\ pc = "done"
    /\ h_max_images >= 1
    /\ Len(BossValidDistinct) > h_max_images + BOSS_EXTRA
    /\ \E a \in DOMAIN BossValidDistinct :
            a > h_max_images + BOSS_EXTRA /\ ~IsProductResult(BossValidDistinct[a])
    /\ \E a \in DOMAIN h_response.body.images : IsProductShot(h_response.body.images[a])

(***************************************************************************)
(* The size threshold of validate_replay_url.                               *)
(***************************************************************************)
\* a 200 image response whose body has exactly n bytes and is no placeholder
ReplayImageOfSize(got, n) ==
    /\ got.kind = "response"
    /\ got.resp.status_code = 200
    /\ Contains(Lower(HeadersGet(got.resp.headers, "Content-Type", <<>>)), IMAGE)
    /\ BodyLen(got.resp.content) = n
    /\ ~ReplayPlaceholder(got)

\* C23, as stated: validate_replay_url reports a candidate not valid when its
\* fetch got a 200 image response whose body has exactly 8000 bytes (one of
\* 8001 bytes that is no placeholder is accepted).
C23_ExactlyMinRejected ==
    \A i \in DOMAIN futures :
        (h_handler = "scrape_replay" /\ futures[i].state = "done") =>
            /\ ReplayImageOfSize(futures[i].got, REPLAY_MIN_BYTES) => ~futures[i].result.is_valid
            /\ ReplayImageOfSize(futures[i].got, REPLAY_MIN_BYTES + 1) => futures[i].result.is_valid

(***************************************************************************)
(* CoachSpec: scrape_coach of scrapers/scrape_coach.py with its own checks  *)
(* of the eleven suffix URLs, from the answers of the image host to the     *)
(* response.                                                                *)
(***************************************************************************)
COACH_MIN_VALID_BYTES == 5000

\* check_single_image(args), given what requests.get produced
check_single_image(args, got) ==
    LET url == args[1]
        index == args[2]
    IN  IF got.kind = "exception" THEN <<index, url, FALSE>>
        ELSE LET response == got.resp IN
             IF response.status_code = 200
             THEN LET content_type == HeadersGet(response.headers, "Content-Type", <<>>) IN
                  IF Contains(content_type, IMAGE) /\ BodyLen(response.content) > COACH_MIN_VALID_BYTES
                  THEN <<index, url, TRUE>>
                  ELSE <<index, url, FALSE>>
             ELSE <<index, url, FALSE>>

\* valid_images.sort(key=lambda x: x[0]): ascending by index, stable
RECURSIVE CoachSort(_)
CoachSort(vs) ==
    IF vs = <<>> THEN <<>>
    ELSE LET last == vs[Len(vs)]
             init == CoachSort(SubSeq(vs, 1, Len(vs) - 1))
             before == SelectSeq(init, LAMBDA v : v[1] <= last[1])
             after == SelectSeq(init, LAMBDA v : v[1] > last[1])
         IN  before \o <<last>> \o after

\* the image bodies the host may serve
CoachBodies == {Body(k, COACH_MIN_VALID_BYTES + 1) : k \in 1..2}

\* what requests.get may produce for the candidates: the first MaxShots + 1
\* suffixes may have an image, the others answer 404
CoachBackends ==
    LET n == Len(COACH_SUFFIXES)
        may == 1..(MaxShots + 1)
        missing == GotResponse(Response(404, ContentTypeHeader(CT_TEXT_HTML), Body(0, 512)))
    IN  {[k \in 1..n |-> IF k \in may THEN f[k] ELSE missing] :
            f \in [may -> {missing} \cup {GotResponse(Response(200, ContentTypeHeader(CT_IMAGE_JPEG), b)) :
                                              b \in CoachBodies}]}

\* lines 62-72: the checks run on the pool, the futures are yielded
\* last-submitted first, valid_images is sorted
CoachCheck(checks, backend) ==
    LET outs == [k \in DOMAIN checks |-> check_single_image(checks[k], backend[k])]
        yielded == Reverse([k \in DOMAIN checks |-> k])
        appended == SelectSeq(yielded, LAMBDA k : outs[k][3])
    IN  CoachSort([a \in DOMAIN appended |-> <<outs[appended[a]][1], outs[appended[a]][2]>>])

\* scrape_coach_endpoint and scrape_coach from the request to the response
CoachScrape(raw, cap, backend) ==
    /\ h_pc = "idle"
    /\ pc = "idle"
    /\ LET sku == Strip(raw) IN
       IF sku = <<>>
       THEN /\ h_input' = <<>>
            /\ h_response' = scrape_coach(raw, cap, <<>>)
            /\ UNCHANGED engine_vars
       ELSE LET checks == urls_to_check(coach_convert_sku(sku))
                valid_images == CoachCheck(checks, backend)
                response == scrape_coach(raw, cap, valid_images)
            IN  /\ pc' = "done"
                /\ url_metadata_list' = [k \in DOMAIN checks |->
                                            [url |-> checks[k][1], metadata |-> [index |-> checks[k][2]]]]
                /\ max_images' = cap
                /\ min_bytes' = COACH_MIN_VALID_BYTES
                /\ futures' = [k \in DOMAIN checks |->
                                [state |-> "done", got |-> backend[k], error |-> FALSE, raised |-> FALSE,
                                 result |-> check_single_image(checks[k], backend[k])]]
                /\ arrival' = <<>>
                /\ results' = valid_images
                /\ images' = response.body.images
                /\ h_input' = valid_images
                /\ h_response' = response
    /\ h_pc' = "responded"
    /\ h_handler' = "scrape_coach"
    /\ h_sku' = Strip(raw)
    /\ h_max_images' = cap
    /\ UNCHANGED <<fetch_vars, pool_vars, levis_vars>>

CoachInit == Idle

CoachNext ==
    \E raw \in CoachSkus, cap \in Caps, backend \in CoachBackends : CoachScrape(raw, cap, backend)

CoachSpec == CoachInit /\ [][CoachNext]_vars

CoachAnswered == WellFormed /\ h_handler = "scrape_coach" /\ pc = "done"

\* the body the host served for the candidate with this url
CoachBodyOf(url) ==
    LET k == CHOOSE j \in DOMAIN url_metadata_list : url_metadata_list[j].url = url
    IN  futures[k].got.resp.content

\* C25, as stated: no two entries of a scrape_coach response have
\* byte-identical downloaded bodies (of two suffix URLs serving the same
\* image only the one earlier in SUFFIXES order is returned).
C25_NoIdenticalBodies ==
    CoachAnswered =>
        \A a, b \in DOMAIN h_response.body.images :
            a # b => CoachBodyOf(h_response.body.images[a].url)
                        # CoachBodyOf(h_response.body.images[b].url)

(***************************************************************************)
(* The inline pipelines of scrape_mango and scrape_replay, run on the       *)
(* candidates and the per-candidate outcomes of a call of                   *)
(* validate_urls_parallel.                                                  *)
(***************************************************************************)
\* the results left in completion order
MangoSortNone(rs) == rs

\* results.sort(key=lambda x: x[4]): ascending by idx, stable
RECURSIVE MangoSort(_)
MangoSort(rs) ==
    IF rs = <<>> THEN <<>>
    ELSE LET last == rs[Len(rs)]
             init == MangoSort(SubSeq(rs, 1, Len(rs) - 1))
         IN  SelectSeq(init, LAMBDA r : r.idx <= last.idx) \o <<last>>
                \o SelectSeq(init, LAMBDA r : r.idx > last.idx)

\* lines 272-303 of scrape_mango: args_list numbers the candidates from 0,
\* the valid results are appended in the order the futures are yielded, then
\* sorted by idx, deduplicated and capped
MangoPipeline(urls, outcome, yielded, cap) ==
    LET appended == SelectSeq(yielded, LAMBDA i : outcome[i].is_valid)
        rs == [a \in DOMAIN appended |->
                [url |-> urls[appended[a]], is_valid |-> TRUE,
                 b64 |-> <<"base64", outcome[appended[a]].hash>>,
                 hash |-> outcome[appended[a]].hash, idx |-> appended[a] - 1]]
    IN  MangoBuildImages(MangoSort(rs), <<>>, {}, cap, <<>>)

\* lines 1175-1194 of scrape_replay: url_order, the valid results appended in
\* the order the futures are yielded, sorted by url_order, deduplicated and
\* capped
ReplayPipeline(url_list, outcome, yielded, cap) ==
    LET appended == SelectSeq(yielded, LAMBDA i : outcome[i].is_valid)
        rs == [a \in DOMAIN appended |->
                ResultTuple(url_list[appended[a]].url, TRUE, outcome[appended[a]].content,
                            outcome[appended[a]].hash, url_list[appended[a]].metadata)]
    IN  ReplayBuildImages(SortResults(rs, url_order(url_list)), <<>>, {}, cap)

\* the candidates of the call with the metadata scrape_replay attaches
AsReplayList ==
    [i \in DOMAIN url_metadata_list |->
        [url |-> url_metadata_list[i].url, metadata |-> ReplayUrlList(Len(url_metadata_list))[i].metadata]]

\* the (valid, hash) outcome of each candidate of the call
Outcomes == [i \in DOMAIN futures |-> futures[i].result]

\* C24: on a candidate list with distinct URLs, with the same max_images and
\* the same per-URL (valid, hash) outcomes, the pipelines of scrape_mango and
\* scrape_replay keep the URLs validate_urls_parallel returns, in the same
\* order, whatever the order in which their futures complete.
C24_PipelinesEquivalent ==
    (Done /\ futures # <<>> /\ DistinctUrls /\ \A i \in DOMAIN futures : ~futures[i].raised) =>
        \A perm \in CompletionOrders(Len(futures)) :
            /\ UrlsOf(MangoPipeline(UrlsOf(url_metadata_list), Outcomes, perm, max_images))
                    = UrlsOf(images)
            /\ UrlsOf(ReplayPipeline(AsReplayList, Outcomes, perm, max_images)) = UrlsOf(images)

\* C24 witness: the call returned two entries from three valid candidates,
\* two with the same body, its results having arrived out of input order.
C24_Witness ==
    /\ Done
    /\ DistinctUrls
    /\ Cardinality(ValidPositions) = 3
    /\ Len(images) = 2
    /\ \E i, j \in ValidPositions : i # j /\ HashOf(i) = HashOf(j)
    /\ \E a, b \in DOMAIN arrival : a < b /\ arrival[a] > arrival[b]

(***************************************************************************)
(* LevisScrapeSpec: scrape_levis given what find_working_combo returned.    *)
(***************************************************************************)
\* what find_working_combo can return
LevisCombos ==
    {<<NoCombo, NoCombo>>}
    \cup {<<PrefixesTried[p], MiddlesTried[m]>> : p \in DOMAIN PrefixesTried, m \in DOMAIN MiddlesTried}

LevisScrapeInit == Idle

LevisScrapeNext ==
    \/ \E cap \in LevisCaps : LevisReject("", cap)
    \/ \E sku_code \in LevisSkuCodes, combo \in LevisCombos : LevisFound(sku_code, combo)
    \/ \E cap \in LevisCaps, held \in SUBSET LevisUrlsHeldNow, yielded \in ViewOrders :
            LevisRespond(cap, held, yielded)

LevisScrapeSpec == LevisScrapeInit /\ [][LevisScrapeNext]_vars

LevisResponded == l_pc = "responded"

\* the images of the response came from the working combination or not
LevisIsPrimary(url) == url[3] = l_result[2]

\* the place of a view in VIEWS
ViewPlace(view) == CHOOSE k \in DOMAIN VIEWS : VIEWS[k] = view

\* C26: in a scrape_levis response the images of the working prefix/middle
\* combination precede the images of an alternate middle, the images of the
\* working combination are in VIEWS order, no URL appears twice, and (with
\* max_images >= 0) there are at most max_images images, whatever the order in
\* which the view checks completed.
C26_PrimaryFirstInViewOrder ==
    LevisResponded =>
        LET imgs == l_response.images IN
        /\ \A a, b \in DOMAIN imgs :
            a < b =>
                /\ ~(~LevisIsPrimary(imgs[a].url) /\ LevisIsPrimary(imgs[b].url))
                /\ (LevisIsPrimary(imgs[a].url) /\ LevisIsPrimary(imgs[b].url))
                        => ViewPlace(imgs[a].url[4]) < ViewPlace(imgs[b].url[4])
                /\ imgs[a].url # imgs[b].url
        /\ l_max_images >= 0 => Len(imgs) <= l_max_images

\* C26 witness: the view checks completed out of VIEWS order, and the response
\* lists two images of the working combination before one of an alternate
\* middle.
C26_Witness ==
    /\ LevisResponded
    /\ Len(l_valid_images) >= 3
    /\ l_valid_images[1][1] > l_valid_images[2][1]
    /\ Len(l_response.images) = 3
    /\ LevisIsPrimary(l_response.images[2].url)
    /\ ~LevisIsPrimary(l_response.images[3].url)

\* the result is the error result "No images found for <sku_code>"
LevisNoImagesError ==
    /\ "error" \in DOMAIN l_response
    /\ l_response.error = <<NO_IMAGES_FOUND, l_sku_code>>

\* C27: for a request whose combinations were probed, scrape_levis returns
\* the error result "No images found" exactly when no prefix/middle
\* combination validated; when the valid combinations all have the empty
\* prefix, the scrape proceeds and the result carries no error.
C27_ErrorIffNoCombo ==
    (LevisResponded /\ l_futures # <<>>) =>
        /\ LevisNoImagesError <=> LevisValid = {}
        /\ (LevisValid # {} /\ \A i \in LevisValid : l_futures[i].combo.prefix = "")
                => "error" \notin DOMAIN l_response

\* C27 witness: the only valid combinations have the empty prefix, and the
\* result lists an image and no error.
C27_Witness ==
    /\ LevisResponded
    /\ LevisValid # {}
    /\ \A i \in LevisValid : l_futures[i].combo.prefix = ""
    /\ "error" \notin DOMAIN l_response
    /\ l_response.count >= 1

(***************************************************************************)
(* MoratoSpec: get_all_images_parallel of scrapers/antony_morato.py.  Three *)
(* URL variants of each of the positions 01..10 are checked with HEAD on a  *)
(* pool; the loop over as_completed keeps, per position, the first valid    *)
(* variant that is yielded.                                                 *)
(***************************************************************************)
MORATO_MIN_SIZE == 1000
MORATO_POSITIONS == 10

\* str.upper() on the letters a-z
AsciiUpper(s) ==
    [i \in DOMAIN s |->
        IF \E k \in DOMAIN LOWERCASE : LOWERCASE[k] = s[i]
        THEN UPPERCASE[CHOOSE k \in DOMAIN LOWERCASE : LOWERCASE[k] = s[i]]
        ELSE s[i]]

\* f"_{i:02d}.jpg"
MoratoSfx(i) == <<"_">> \o (IF i < 10 THEN <<"0">> ELSE <<>>) \o Decimal(i) \o <<".jpg">>

\* f"{CDN_BASE}/{d1}/{d2}/{name}"
MoratoUrl(d1, d2, name) == <<d1, d2, name>>

\* lines 117-126: the candidates, three per position
morato_candidates(morato_code) ==
    LET fn == AsciiUpper(morato_code)
        d1 == <<fn[1]>>
        d2 == <<fn[2]>>
    IN  [k \in 1..(3 * MORATO_POSITIONS) |->
            LET i == ((k - 1) \div 3) + 1
                sfx == MoratoSfx(i)
            IN  CASE (k - 1) % 3 = 0 -> <<i, MoratoUrl(d1, d2, fn \o sfx)>>
                  [] (k - 1) % 3 = 1 ->
                        <<i, MoratoUrl(AsciiLower(d1), AsciiLower(d2), AsciiLower(fn) \o sfx)>>
                  [] OTHER -> <<i, MoratoUrl(d1, d2, fn \o <<"-", "U", "N">> \o sfx)>>]

\* what session.head produces for a URL when the CDN holds the URLs of held
MoratoBackend(held, url) ==
    IF url \in held
    THEN GotResponse(Response(200, [n \in {"Content-Length"} |-> MORATO_MIN_SIZE + 1], Body(0, 0)))
    ELSE GotResponse(Response(404, NoHeaders, Body(0, 0)))

\* check_url(url) of antony_morato.py, given what session.head produced
morato_check_url(got) ==
    IF got.kind = "exception" THEN FALSE
    ELSE LET r == got.resp IN
         IF r.status_code = 200
         THEN "Content-Length" \notin DOMAIN r.headers \/ r.headers["Content-Length"] > MORATO_MIN_SIZE
         ELSE FALSE

\* lines 137-145: the futures are yielded in the order yielded; found_urls
\* keeps for each position the first valid URL yielded
RECURSIVE MoratoCollect(_, _, _, _)
MoratoCollect(candidates, held, yielded, found_urls) ==
    IF yielded = <<>> THEN found_urls
    ELSE LET item == candidates[Head(yielded)]
             idx == item[1]
             url == item[2]
         IN  IF morato_check_url(MoratoBackend(held, url)) /\ idx \notin DOMAIN found_urls
             THEN MoratoCollect(candidates, held, Tail(yielded),
                                [j \in DOMAIN found_urls \cup {idx} |->
                                    IF j = idx THEN url ELSE found_urls[j]])
             ELSE MoratoCollect(candidates, held, Tail(yielded), found_urls)

\* lines 148-153: for idx in sorted(found_urls.keys())
RECURSIVE MoratoBuild(_, _, _, _)
MoratoBuild(found_urls, todo, imgs, cap) ==
    IF todo = {} THEN imgs
    ELSE IF Len(imgs) >= cap THEN imgs
    ELSE LET idx == CHOOSE j \in todo : \A o \in todo : j <= o
         IN  MoratoBuild(found_urls, todo \ {idx}, Append(imgs, found_urls[idx]), cap)

get_all_images_parallel(morato_code, cap, held, yielded) ==
    LET found_urls == MoratoCollect(morato_candidates(morato_code), held, yielded,
                                    [j \in {} |-> <<>>])
    IN  MoratoBuild(found_urls, DOMAIN found_urls, <<>>, cap)

MoratoCodes == {<<"M", "M", "f", "1">>, <<"1", "2", "3">>}

\* the candidates the CDN may hold: those of the first MaxShots positions
MoratoMayHold(morato_code) ==
    {morato_candidates(morato_code)[k][2] : k \in 1..(3 * MaxShots)}

\* the orders in which the futures are yielded: as submitted, or reversed
MoratoOrders ==
    {[k \in 1..(3 * MORATO_POSITIONS) |-> k], Reverse([k \in 1..(3 * MORATO_POSITIONS) |-> k])}

MoratoRun(morato_code, cap, held, yielded) ==
    /\ h_pc = "idle"
    /\ h_pc' = "responded"
    /\ h_handler' = "get_all_images_parallel"
    /\ h_sku' = morato_code
    /\ h_max_images' = cap
    /\ h_input' = [held |-> held, yielded |-> yielded]
    /\ h_response' = get_all_images_parallel(morato_code, cap, held, yielded)
    /\ UNCHANGED other_than_handler

MoratoInit == Idle

MoratoNext ==
    \E morato_code \in MoratoCodes, cap \in Caps, yielded \in MoratoOrders :
        \E held \in SUBSET MoratoMayHold(morato_code) :
            MoratoRun(morato_code, cap, held, yielded)

MoratoSpec == MoratoInit /\ [][MoratoNext]_vars

MoratoReturned == h_pc = "responded" /\ h_handler = "get_all_images_parallel"

\* C28, as stated: the returned list depends only on which candidate URLs are
\* valid; under every other completion order of the HEAD checks the call
\* returns the same list, the same variant for each position.
C28_SameUnderEveryOrder ==
    MoratoReturned =>
        \A yielded \in MoratoOrders :
            get_all_images_parallel(h_sku, h_max_images, h_input.held, yielded) = h_response

(***************************************************************************)
(* FalkeSpec: scrape of scrapers/falke.py from the gallery extract_images   *)
(* found on the product page to the result.  download_image tries a URL up  *)
(* to three times.                                                          *)
(***************************************************************************)
FALKE_MIN_SIZE == 8000
FALKE_ATTEMPTS == 3

FALKE_NO_IMAGES == "No images found on product page"
FALKE_FAILED == "Failed to download images"

\* Image.open(BytesIO(content)).verify() passes: the body numbered 0 is no image
Verifies(content) == content.id # 0

\* download_image(url), given what SESSION.get produced at each attempt;
\* has_pil tells whether PIL was importable
RECURSIVE download_image(_, _)
download_image(gots, has_pil) ==
    IF gots = <<>> THEN None
    ELSE LET got == Head(gots) IN
         IF got.kind = "exception" THEN download_image(Tail(gots), has_pil)
         ELSE LET r == got.resp IN
              IF /\ r.status_code = 200
                 /\ Truthy(r.content)
                 /\ BodyLen(r.content) >= FALKE_MIN_SIZE
                 /\ (has_pil => Verifies(r.content))
              THEN r.content
              ELSE download_image(Tail(gots), has_pil)

\* lines 159-170: the loop, over the slice gallery[:max_images] it is handed
RECURSIVE FalkeImages(_, _, _, _, _, _)
FalkeImages(gallery, answers, imgs, sku, validate, has_pil) ==
    IF gallery = <<>> THEN imgs
    ELSE IF validate /\ download_image(answers[Head(gallery)], has_pil) = None
         THEN FalkeImages(Tail(gallery), answers, imgs, sku, validate, has_pil)
         ELSE FalkeImages(Tail(gallery), answers,
                          Append(imgs, [url |-> Head(gallery), index |-> Len(imgs) + 1,
                                        filename |-> sku \o <<"-">> \o Decimal(Len(imgs) + 1)]),
                          sku, validate, has_pil)

\* lines 154-178 of scrape: the result, given the gallery and what the image
\* host answers for each of its URLs
falke_scrape(sku, cap, validate, gallery, answers, has_pil) ==
    LET result == [sku |-> sku, formatted_sku |-> sku, images |-> <<>>, count |-> 0, error |-> None]
    IN  IF gallery = <<>> THEN [result EXCEPT !.error = FALKE_NO_IMAGES]
        ELSE LET imgs == FalkeImages(SliceTo(gallery, cap), answers, <<>>, sku, validate, has_pil)
             IN  IF imgs # <<>> THEN [result EXCEPT !.images = imgs, !.count = Len(imgs)]
                 ELSE [result EXCEPT !.error = FALKE_FAILED]

FalkeSkus == {<<"F", "A", "1">>}

\* what SESSION.get may produce at the attempts for one URL: the same answer
\* every time, or a success at the last attempt only
FalkeAnswers ==
    LET good == GotResponse(Response(200, ContentTypeHeader(CT_IMAGE_JPEG), Body(1, FALKE_MIN_SIZE)))
        short == GotResponse(Response(200, ContentTypeHeader(CT_IMAGE_JPEG), Body(1, FALKE_MIN_SIZE - 1)))
        broken == GotResponse(Response(200, ContentTypeHeader(CT_TEXT_HTML), Body(0, FALKE_MIN_SIZE)))
    IN  {[a \in 1..FALKE_ATTEMPTS |-> g] : g \in {good, short, broken, GotException}}
        \cup {[a \in 1..FALKE_ATTEMPTS |-> IF a = FALKE_ATTEMPTS THEN good ELSE GotException]}

\* the galleries extract_images can hand over: distinct URLs
FalkeGalleries == {[k \in 1..n |-> Url(k)] : n \in 0..(MaxShots + 1)}

FalkeScrape(sku, cap, validate, gallery, answers, has_pil) ==
    /\ h_pc = "idle"
    /\ h_pc' = "responded"
    /\ h_handler' = "falke.scrape"
    /\ h_sku' = sku
    /\ h_max_images' = cap
    /\ h_input' = [gallery |-> gallery, answers |-> answers, validate |-> validate, has_pil |-> has_pil]
    /\ h_response' = falke_scrape(sku, cap, validate, gallery, answers, has_pil)
    /\ UNCHANGED other_than_handler

FalkeInit == Idle

FalkeNext ==
    \E sku \in FalkeSkus, cap \in Caps, validate \in BOOLEAN, has_pil \in BOOLEAN,
       gallery \in FalkeGalleries :
        \E answers \in [{gallery[k] : k \in DOMAIN gallery} -> FalkeAnswers] :
            FalkeScrape(sku, cap, validate, gallery, answers, has_pil)

FalkeSpec == FalkeInit /\ [][FalkeNext]_vars

FalkeAnswered == h_pc = "responded" /\ h_handler = "falke.scrape"

\* the gallery URLs that pass download_image
FalkePassing ==
    {k \in DOMAIN h_input.gallery :
        download_image(h_input.answers[h_input.gallery[k]], h_input.has_pil) # None}

Min(a, b) == IF a <= b THEN a ELSE b

\* C29, as stated: with validate=True (and max_images >= 0) scrape returns
\* min(max_images, V) images, V the number of gallery URLs that pass
\* download_image: a gallery URL beyond the first max_images is used when an
\* earlier one fails.
C29_MinOfCapAndValid ==
    (FalkeAnswered /\ h_input.validate /\ h_max_images >= 0) =>
        Len(h_response.images) = Min(h_max_images, Cardinality(FalkePassing))

(***************************************************************************)
(* Termination of validate_urls_parallel.                                   *)
(***************************************************************************)
\* every candidate of the list has a future, and every future has settled
EveryCandidateFetched ==
    /\ Len(futures) = Len(url_metadata_list)
    /\ \A i \in DOMAIN futures : futures[i].state = "done"

\* a future that has settled is not run again
SettledOnce ==
    \A i \in DOMAIN futures :
        (futures[i].state = "done" /\ pc' # "idle" /\ i \in DOMAIN futures') => futures'[i] = futures[i]

\* C30: provided every fetch eventually settles, a call of
\* validate_urls_parallel that has submitted its fetches eventually returns,
\* and it returns only after every candidate of the list has been fetched:
\* none is skipped or left pending, and a settled fetch is never run again.
C30_ReturnsAfterEveryFetch ==
    /\ (pc = "fetching") ~> Done
    /\ [](Done => EveryCandidateFetched \/ url_metadata_list = <<>>)
    /\ [][SettledOnce]_vars

\* C30 witness: a call of MaxCands candidates has returned an image although
\* one of its fetches ended in an exception (a timeout).
C30_Witness ==
    /\ Done
    /\ Len(url_metadata_list) = MaxCands
    /\ EveryCandidateFetched
    /\ \E i \in DOMAIN futures : futures[i].got.kind = "exception"
    /\ images # <<>>

====
